---- MODULE Spec2Model ----
(***************************************************************************)
(* A model of the Edge-Analysis trading-journal pipeline: the field        *)
(* parsers and the row classifier (src/src/edge_analysis/core/parsing.py), *)
(* the dataset builder (src/data_loading.py, with the template adapter's   *)
(* coercions), and the aggregation engine (src/src/core/metrics.py and     *)
(* outcome_rates_from of src/src/edge_analysis/ui/tabs.py).                *)
(*                                                                         *)
(* The program is a set of pure functions.  A behaviour of the model is    *)
(* one call: Init draws the arguments from bounded sets, and one action    *)
(* per function applies it and stores what it returned.                    *)
(*                                                                         *)
(* Representation of values.                                               *)
(*  - Percentages are kept in hundredths of a percent (integers): 3333 is  *)
(*    33.33.  round(x, 2) is the rounding of the exact quotient to the     *)
(*    nearest hundredth, ties to even, which is what Python's round does   *)
(*    on the doubles that arise for the counts considered here.            *)
(*  - Text is a sequence of one-character strings.                         *)
(*  - A raw cell is a tagged record: None, NaN, a number, a boolean, text  *)
(*    or a list of texts.                                                  *)
(***************************************************************************)
EXTENDS Integers, Sequences, FiniteSets, TLC

VARIABLES
    pc,      \* "start" before the call, "done" after it
    call,    \* the function that was applied ("" before the call)
    args,    \* the arguments of the call
    result   \* what the call returned (NoResult before the call)

vars == <<pc, call, args, result>>

NoResult == [t |-> "noresult"]

(***************************************************************************)
(* Bounds of the model.                                                    *)
(***************************************************************************)
\* largest count of wins, of breakevens and of losses passed to
\* percentages_sum_to_100 directly (totals reach 3 * MaxCount, which
\* covers the total 32, the smallest with a rounding tie)
MaxCount == 11

\* largest number of rows of a table handed to the aggregation functions
MaxRows == 3

(***************************************************************************)
(* Aggregation engine: src/src/core/metrics.py                             *)
(***************************************************************************)

\* round(100 * n / d, 2) in hundredths, for d > 0: nearest, ties to even
RoundPct(n, d) ==
    LET x == n * 10000
        q == x \div d
        r == x % d
    IN  IF 2 * r < d THEN q
        ELSE IF 2 * r > d THEN q + 1
        ELSE IF q % 2 = 0 THEN q ELSE q + 1

\* the variant of percentages_sum_to_100 that forgets the drift correction
percentages_without_drift(wins, bes, losses) ==
    LET total == wins + bes + losses
    IN  IF total <= 0 THEN [Win |-> 0, BE |-> 0, Loss |-> 0]
        ELSE [Win |-> RoundPct(wins, total), BE |-> RoundPct(bes, total),
              Loss |-> RoundPct(losses, total)]

\* percentages_sum_to_100(wins, bes, losses)
percentages_sum_to_100(wins, bes, losses) ==
    LET total == wins + bes + losses
    IN  IF total <= 0 THEN [Win |-> 0, BE |-> 0, Loss |-> 0]
        ELSE
          LET w == RoundPct(wins, total)
              b == RoundPct(bes, total)
              l == RoundPct(losses, total)
              drift == 10000 - (w + b + l)
          IN  IF drift # 0
              THEN IF w >= b /\ w >= l
                     THEN [Win |-> w + drift, BE |-> b, Loss |-> l]
                   ELSE IF b >= w /\ b >= l
                     THEN [Win |-> w, BE |-> b + drift, Loss |-> l]
                   ELSE [Win |-> w, BE |-> b, Loss |-> l + drift]
              ELSE [Win |-> w, BE |-> b, Loss |-> l]

\* A table handed to the aggregation functions has the columns Session,
\* Instrument and Outcome.  A grouping cell is NullKey (a null cell) or a
\* label, written as its rank in the sort order of the labels; an Outcome
\* cell is a label or NullCell.
NullKey == 0
NullCell == "<null>"
SessionCells == {NullKey, 1, 2}
InstrumentCells == {NullKey, 1}
OutcomeCells == {"Win", "BE", "Loss", "Unknown", NullCell}

\* the constants of the schema module that metrics.py imports
RESULT_WIN == "Win"
RESULT_BE == "BE"
RESULT_LOSS == "Loss"

\* Series.fillna("")
FillNa(cell) == IF cell = NullCell THEN "" ELSE cell

\* the number of rows of g whose Outcome, after fillna, equals label
CountEq(g, label) ==
    Cardinality({i \in 1 .. Len(g) : FillNa(g[i].Outcome) = label})

\* win_be_loss_counts(df)
win_be_loss_counts(g) ==
    IF g = <<>> THEN [Win |-> 0, BE |-> 0, Loss |-> 0]
    ELSE [Win |-> CountEq(g, RESULT_WIN), BE |-> CountEq(g, RESULT_BE),
          Loss |-> CountEq(g, RESULT_LOSS)]

\* the key of a row under the grouping columns by
KeyOf(row, by) == [i \in 1 .. Len(by) |-> row[by[i]]]

\* DataFrame.groupby(by) drops the rows with a null cell in a grouping column
HasNullKey(k) == \E i \in 1 .. Len(k) : k[i] = NullKey

GroupKeys(rows, by) ==
    {k \in {KeyOf(rows[i], by) : i \in 1 .. Len(rows)} : ~HasNullKey(k)}

\* the order in which groupby yields the groups: sorted by key
LexLess(a, b) ==
    \E i \in 1 .. Len(a) :
        /\ a[i] < b[i]
        /\ \A j \in 1 .. (i - 1) : a[j] = b[j]

RECURSIVE SortKeys(_)
SortKeys(S) ==
    IF S = {} THEN <<>>
    ELSE LET m == CHOOSE k \in S : \A o \in S \ {k} : LexLess(k, o)
         IN  <<m>> \o SortKeys(S \ {m})

\* the rows of one group, in table order
GroupRows(rows, by, k) == SelectSeq(rows, LAMBDA r : KeyOf(r, by) = k)

\* the row group_win_rates builds for one group
WinRateRow(k, g, perc) ==
    [key |-> k, Trades |-> Len(g),
     WinPct |-> perc.Win, BEPct |-> perc.BE, LossPct |-> perc.Loss]

\* the variant of group_win_rates that takes each percentage of the group's
\* length instead of the counted total
group_win_rates_of_len(rows, by) ==
    IF rows = <<>> THEN <<>>
    ELSE LET ks == SortKeys(GroupKeys(rows, by))
         IN  [n \in 1 .. Len(ks) |->
                LET g == GroupRows(rows, by, ks[n])
                    counts == win_be_loss_counts(g)
                IN  WinRateRow(ks[n], g,
                        [Win |-> RoundPct(counts.Win, Len(g)),
                         BE |-> RoundPct(counts.BE, Len(g)),
                         Loss |-> RoundPct(counts.Loss, Len(g))])]

\* group_win_rates(df, by)
group_win_rates(rows, by) ==
    IF rows = <<>> THEN <<>>
    ELSE LET ks == SortKeys(GroupKeys(rows, by))
         IN  [n \in 1 .. Len(ks) |->
                LET g == GroupRows(rows, by, ks[n])
                    counts == win_be_loss_counts(g)
                IN  WinRateRow(ks[n], g,
                        percentages_sum_to_100(counts.Win, counts.BE,
                                               counts.Loss))]

(***************************************************************************)
(* Performance breakdowns: src/src/edge_analysis/ui/tabs.py                *)
(***************************************************************************)

Max(a, b) == IF a >= b THEN a ELSE b

IsCounted(r) == r.Outcome \in {"Win", "BE", "Loss"}

CountOutcome(g, label) ==
    Cardinality({i \in 1 .. Len(g) : g[i].Outcome = label})

\* outcome_rates_from(df)
outcome_rates_from(rows) ==
    IF rows = <<>>
    THEN [total |-> 0, counted |-> 0, wins |-> 0, bes |-> 0, losses |-> 0,
          win_rate |-> 0, be_rate |-> 0, loss_rate |-> 0]
    ELSE LET counted == SelectSeq(rows, IsCounted)
             counted_n == Len(counted)
             wins == CountOutcome(counted, "Win")
             bes == CountOutcome(counted, "BE")
             losses == CountOutcome(counted, "Loss")
         IN  [total |-> Len(rows), counted |-> counted_n,
              wins |-> wins, bes |-> bes, losses |-> losses,
              win_rate |-> RoundPct(wins, Max(1, counted_n)),
              be_rate |-> RoundPct(bes, Max(1, counted_n)),
              loss_rate |-> RoundPct(losses, Max(1, counted_n))]

\* _rr_stats(df) of a table without a Closed RR column
rr_stats(g) == [net |-> [t |-> "none"], ex |-> [t |-> "none"]]

RECURSIVE SortByWinPct(_)
\* sort_values("Win %", ascending=False): the highest Win % first, rows of
\* equal Win % in the order they had
SortByWinPct(rates) ==
    IF rates = <<>> THEN <<>>
    ELSE LET top == CHOOSE i \in 1 .. Len(rates) :
                        /\ \A k \in 1 .. Len(rates) : rates[k].WinPct <= rates[i].WinPct
                        /\ \A k \in 1 .. (i - 1) : rates[k].WinPct < rates[i].WinPct
         IN  <<rates[top]>>
                 \o SortByWinPct([k \in 1 .. (Len(rates) - 1) |->
                                     IF k < top THEN rates[k] ELSE rates[k + 1]])

\* the table _sessions_tab renders: the counted rows grouped by session,
\* outcome_rates_from and _rr_stats on each group, sorted by Win %; a notice
\* where no row has a session; KeyError where a row has one and none is
\* counted, the frame of no rates having no "Win %" column to sort by
sessions_tab(rows) ==
    IF rows = <<>> \/ \A i \in 1 .. Len(rows) : rows[i].Session = NullKey
    THEN [t |-> "info", text |-> "No session data."]
    ELSE LET counted == SelectSeq(rows, IsCounted)
             ks == SortKeys(GroupKeys(counted, <<"Session">>))
             rates == [n \in 1 .. Len(ks) |->
                          LET g == GroupRows(counted, <<"Session">>, ks[n])
                              r == outcome_rates_from(g)
                              rr == rr_stats(g)
                          IN  [Session |-> ks[n][1], Trades |-> Len(g),
                               WinPct |-> r.win_rate, BEPct |-> r.be_rate,
                               LossPct |-> r.loss_rate,
                               NetPnL |-> rr.net, Expectancy |-> rr.ex]]
         IN  IF rates = <<>> THEN [t |-> "raise", exc |-> "KeyError"]
             ELSE [t |-> "table", rows |-> SortByWinPct(rates)]

(***************************************************************************)
(* The aggregation calls.                                                  *)
(***************************************************************************)

TableRows ==
    [Session : SessionCells, Instrument : InstrumentCells,
     Outcome : OutcomeCells]

\* the sequences over S of length at most n
SeqsUpTo(S, n) == UNION {[1 .. k -> S] : k \in 0 .. n}

Groupings == {<<"Session">>, <<"Session", "Instrument">>}

CountsArgs ==
    [kind : {"counts"}, wins : 0 .. MaxCount, bes : 0 .. MaxCount,
     losses : 0 .. MaxCount]

TableArgs == [kind : {"table"}, rows : SeqsUpTo(TableRows, MaxRows), by : Groupings]

InitMetrics ==
    /\ pc = "start"
    /\ call = ""
    /\ args \in CountsArgs \cup TableArgs
    /\ result = NoResult

Percentages ==
    /\ pc = "start"
    /\ args.kind = "counts"
    /\ result' = percentages_sum_to_100(args.wins, args.bes, args.losses)
    /\ call' = "percentages_sum_to_100"
    /\ pc' = "done"
    /\ UNCHANGED args

GroupWinRates ==
    /\ pc = "start"
    /\ args.kind = "table"
    /\ result' = group_win_rates(args.rows, args.by)
    /\ call' = "group_win_rates"
    /\ pc' = "done"
    /\ UNCHANGED args

OutcomeRates ==
    /\ pc = "start"
    /\ args.kind = "table"
    /\ result' = outcome_rates_from(args.rows)
    /\ call' = "outcome_rates_from"
    /\ pc' = "done"
    /\ UNCHANGED args

SessionsTab ==
    /\ pc = "start"
    /\ args.kind = "table"
    /\ result' = sessions_tab(args.rows)
    /\ call' = "sessions_tab"
    /\ pc' = "done"
    /\ UNCHANGED args

NextMetrics == Percentages \/ GroupWinRates \/ OutcomeRates \/ SessionsTab

SpecMetrics == InitMetrics /\ [][NextMetrics]_vars

(***************************************************************************)
(* Claims about the aggregation engine.                                    *)
(***************************************************************************)

\* C1: for all counts wins, bes, losses >= 0, percentages_sum_to_100
\* returns three percentages that sum to exactly 100.00 when
\* wins + bes + losses > 0, and 0.00, 0.00, 0.00 when the total is 0.
C1_PercentagesSumTo100 ==
    (pc = "done" /\ call = "percentages_sum_to_100") =>
        IF args.wins + args.bes + args.losses > 0
        THEN result.Win + result.BE + result.Loss = 10000
        ELSE result = [Win |-> 0, BE |-> 0, Loss |-> 0]

\* the drift correction has acted: the three rounded shares of 1, 1, 1 sum
\* to 99.99 and the first of them was raised to 33.34
C1_Witness ==
    /\ pc = "done" /\ call = "percentages_sum_to_100"
    /\ args.wins = 1 /\ args.bes = 1 /\ args.losses = 1
    /\ result = [Win |-> 3334, BE |-> 3333, Loss |-> 3333]

\* the rows of the input table that fall in the group of result row r
RowsOfGroup(r) == GroupRows(args.rows, args.by, r.key)

HasCountedRow(g) ==
    \E i \in 1 .. Len(g) :
        FillNa(g[i].Outcome) \in {RESULT_WIN, RESULT_BE, RESULT_LOSS}

\* C9 as claimed: for every table and every list of grouping columns, each
\* row of group_win_rates' result has Win % + BE % + Loss % = 100.00
\* whenever its Trades count is greater than 0.
C9_Claimed_SumWheneverTrades ==
    (pc = "done" /\ call = "group_win_rates") =>
        \A n \in 1 .. Len(result) :
            result[n].Trades > 0 =>
                result[n].WinPct + result[n].BEPct + result[n].LossPct = 10000

\* C9 as amended: each row of group_win_rates' result has
\* Win % + BE % + Loss % = 100.00 whenever its group holds at least one row
\* whose outcome is Win, BE or Loss; a group that holds none (its Trades
\* still counts its rows) has 0.00, 0.00, 0.00.
C9_SumWheneverCounted ==
    (pc = "done" /\ call = "group_win_rates") =>
        \A n \in 1 .. Len(result) :
            /\ result[n].Trades = Len(RowsOfGroup(result[n]))
            /\ result[n].Trades > 0
            /\ IF HasCountedRow(RowsOfGroup(result[n]))
               THEN result[n].WinPct + result[n].BEPct + result[n].LossPct
                        = 10000
               ELSE /\ result[n].WinPct = 0
                    /\ result[n].BEPct = 0
                    /\ result[n].LossPct = 0

\* a table grouped by two columns whose one group holds a win, a breakeven
\* and a loss: the rounded thirds sum to 99.99 and the drift is added to
\* the first of them
C9_Witness ==
    /\ pc = "done" /\ call = "group_win_rates"
    /\ args.by = <<"Session", "Instrument">>
    /\ Len(result) = 1
    /\ result[1].key = <<2, 1>>
    /\ result[1].Trades = 3
    /\ result[1].WinPct = 3334 /\ result[1].BEPct = 3333
    /\ result[1].LossPct = 3333

\* C10: for every group of the per-dimension performance breakdowns, whose
\* rates come from outcome_rates_from, win_rate + be_rate + loss_rate is
\* exactly 100.00 when the group holds at least one counted (Win/BE/Loss)
\* trade, and all three rates are 0.0 when it holds none.
C10_RatesSumTo100 ==
    /\ (pc = "done" /\ call = "outcome_rates_from") =>
            IF result.counted > 0
            THEN result.win_rate + result.be_rate + result.loss_rate = 10000
            ELSE result.win_rate = 0 /\ result.be_rate = 0
                 /\ result.loss_rate = 0
    /\ (pc = "done" /\ call = "sessions_tab" /\ result.t = "table") =>
            \A n \in 1 .. Len(result.rows) :
                IF result.rows[n].Trades > 0
                THEN result.rows[n].WinPct + result.rows[n].BEPct
                        + result.rows[n].LossPct = 10000
                ELSE result.rows[n].WinPct = 0 /\ result.rows[n].BEPct = 0
                     /\ result.rows[n].LossPct = 0

(***************************************************************************)
(* Text.  A text is a sequence of characters, each a one-character string. *)
(***************************************************************************)

\* characters outside ASCII are written by name
EnDash == "<en dash>"
EmDash == "<em dash>"

Digits == {"0", "1", "2", "3", "4", "5", "6", "7", "8", "9"}

\* the lower-case letter of each upper-case letter
LowerOf ==
    ("A" :> "a") @@ ("B" :> "b") @@ ("C" :> "c") @@ ("D" :> "d") @@ ("E" :> "e")
    @@ ("F" :> "f") @@ ("G" :> "g") @@ ("H" :> "h") @@ ("I" :> "i") @@ ("J" :> "j")
    @@ ("K" :> "k") @@ ("L" :> "l") @@ ("M" :> "m") @@ ("N" :> "n") @@ ("O" :> "o")
    @@ ("P" :> "p") @@ ("Q" :> "q") @@ ("R" :> "r") @@ ("S" :> "s") @@ ("T" :> "t")
    @@ ("U" :> "u") @@ ("V" :> "v") @@ ("W" :> "w") @@ ("X" :> "x") @@ ("Y" :> "y")
    @@ ("Z" :> "z")

\* the upper-case letter of each lower-case letter
UpperOf ==
    ("a" :> "A") @@ ("b" :> "B") @@ ("c" :> "C") @@ ("d" :> "D") @@ ("e" :> "E")
    @@ ("f" :> "F") @@ ("g" :> "G") @@ ("h" :> "H") @@ ("i" :> "I") @@ ("j" :> "J")
    @@ ("k" :> "K") @@ ("l" :> "L") @@ ("m" :> "M") @@ ("n" :> "N") @@ ("o" :> "O")
    @@ ("p" :> "P") @@ ("q" :> "Q") @@ ("r" :> "R") @@ ("s" :> "S") @@ ("t" :> "T")
    @@ ("u" :> "U") @@ ("v" :> "V") @@ ("w" :> "W") @@ ("x" :> "X") @@ ("y" :> "Y")
    @@ ("z" :> "Z")

IsUpper(c) == c \in DOMAIN LowerOf
IsLower(c) == c \in DOMAIN UpperOf
IsAlpha(c) == IsUpper(c) \/ IsLower(c)
IsDigit(c) == c \in Digits
\* what str.strip() removes and the regular expression \s matches
IsSpace(c) == c \in {" ", "\t", "\n"}

LowerChar(c) == IF IsUpper(c) THEN LowerOf[c] ELSE c

UpperChar(c) == IF IsLower(c) THEN UpperOf[c] ELSE c

\* str.lower()
LowerText(s) == [i \in 1 .. Len(s) |-> LowerChar(s[i])]

RECURSIVE LStrip(_)
LStrip(s) ==
    IF s # <<>> /\ IsSpace(Head(s)) THEN LStrip(Tail(s)) ELSE s

RECURSIVE RStrip(_)
RStrip(s) ==
    IF s # <<>> /\ IsSpace(s[Len(s)])
    THEN RStrip(SubSeq(s, 1, Len(s) - 1))
    ELSE s

\* str.strip()
Strip(s) == RStrip(LStrip(s))

\* str.replace(c, "") for a single character c
RemoveChar(s, c) == SelectSeq(s, LAMBDA x : x # c)

\* whether text p occurs in text s at index i
OccursAt(s, p, i) ==
    /\ i >= 1
    /\ i + Len(p) - 1 <= Len(s)
    /\ \A k \in 1 .. Len(p) : s[i + k - 1] = p[k]

\* p in s
Contains(s, p) == \E i \in 1 .. (Len(s) + 1) : OccursAt(s, p, i)

(***************************************************************************)
(* Numbers.  A float is kept as an exact decimal m * 10^(-e), e >= 0, with *)
(* no trailing zero in m when e > 0; NaN is a value of its own.            *)
(***************************************************************************)

NaN == [t |-> "nan"]
None == [t |-> "none"]

RECURSIVE DecNorm(_, _)
DecNorm(m, e) ==
    IF e > 0 /\ m % 10 = 0 THEN DecNorm(m \div 10, e - 1)
    ELSE [t |-> "num", m |-> m, e |-> e]

RECURSIVE Pow10(_)
Pow10(e) == IF e = 0 THEN 1 ELSE 10 * Pow10(e - 1)

\* a + b
DecAdd(a, b) ==
    LET e == Max(a.e, b.e)
    IN  DecNorm(a.m * Pow10(e - a.e) + b.m * Pow10(e - b.e), e)

\* a / 2.0
DecHalf(a) == DecNorm(a.m * 5, a.e + 1)

IsNum(v) == v.t = "num"

DigitVal(c) == CHOOSE d \in 0 .. 9 : <<"0", "1", "2", "3", "4", "5", "6", "7", "8", "9">>[d + 1] = c

RECURSIVE DigitsVal(_)
\* the value of a text of digits
DigitsVal(s) ==
    IF s = <<>> THEN 0
    ELSE 10 * DigitsVal(SubSeq(s, 1, Len(s) - 1)) + DigitVal(s[Len(s)])

RECURSIVE DigitRunEnd(_, _)
\* the index of the last digit of the longest run of digits of s that
\* starts at index i; i - 1 when s has no digit at i
DigitRunEnd(s, i) ==
    IF i <= Len(s) /\ IsDigit(s[i]) THEN DigitRunEnd(s, i + 1) ELSE i - 1

\* float() of a text of the form [+-]? digits ( "." digits* )? that holds
\* at least one digit before the point
NumeralVal(s) ==
    LET neg == s[1] = "-"
        k == IF s[1] \in {"+", "-"} THEN 2 ELSE 1
        d == DigitRunEnd(s, k)
        whole == DigitsVal(SubSeq(s, k, d))
        frac == IF d < Len(s) THEN SubSeq(s, d + 2, Len(s)) ELSE <<>>
        mag == whole * Pow10(Len(frac)) + DigitsVal(frac)
    IN  DecNorm(IF neg THEN 0 - mag ELSE mag, Len(frac))

(***************************************************************************)
(* Raw cells.  A raw value is None, NaN, a number, a boolean, a text or a  *)
(* list of texts.                                                          *)
(***************************************************************************)

Num(n) == [t |-> "num", m |-> n, e |-> 0]
Bool(b) == [t |-> "bool", b |-> b]
Str(s) == [t |-> "str", s |-> s]
List(l) == [t |-> "list", l |-> l]

\* an exception that leaves the function
Raise(exc) == [t |-> "raise", exc |-> exc]

IsStr(v) == v.t = "str"
\* pd.isna(v) of a scalar
IsNa(v) == v.t \in {"none", "nan"}

RECURSIVE NatText(_)
\* str(n) of a natural number
NatText(n) ==
    IF n < 10 THEN <<<<"0", "1", "2", "3", "4", "5", "6", "7", "8", "9">>[n + 1]>>
    ELSE NatText(n \div 10) \o NatText(n % 10)

\* str(x) of an int (e = 0) or of a float with e decimals
NumText(v) ==
    LET mag == IF v.m < 0 THEN 0 - v.m ELSE v.m
        sign == IF v.m < 0 THEN <<"-">> ELSE <<>>
        whole == NatText(mag \div Pow10(v.e))
        frac == NatText(Pow10(v.e) + (mag % Pow10(v.e)))
    IN  IF v.e = 0 THEN sign \o whole
        ELSE sign \o whole \o <<".">> \o Tail(frac)

RECURSIVE JoinRepr(_)
\* ", ".join(repr(s) for s in l), for texts without quotes or backslashes
JoinRepr(l) ==
    IF l = <<>> THEN <<>>
    ELSE <<"'">> \o Head(l) \o <<"'">>
         \o (IF Len(l) > 1 THEN <<",", " ">> ELSE <<>>) \o JoinRepr(Tail(l))

\* str(v)
StrOf(v) ==
    CASE v.t = "str" -> v.s
      [] v.t = "none" -> <<"N", "o", "n", "e">>
      [] v.t = "nan" -> <<"n", "a", "n">>
      [] v.t = "bool" -> IF v.b THEN <<"T", "r", "u", "e">> ELSE <<"F", "a", "l", "s", "e">>
      [] v.t = "num" -> NumText(v)
      [] v.t = "list" -> <<"[">> \o JoinRepr(v.l) \o <<"]">>

(***************************************************************************)
(* parse_closed_rr: src/src/edge_analysis/core/parsing.py                  *)
(***************************************************************************)

\* an infinite float
Inf(neg) == [t |-> "inf", neg |-> neg]

\* float(s) of a text: the value, or ValueError.  The literals modelled are
\* [+-]? (digits ("." digits*)? | "." digits), nan, inf and infinity, with
\* blanks around them; exponents and underscores between digits are not
\* (the texts of the model hold no "e" next to a digit and no "_").
FloatOf(s) ==
    LET w == Strip(s)
        k == IF w # <<>> /\ w[1] \in {"+", "-"} THEN 2 ELSE 1
        d == DigitRunEnd(w, k)
        f == IF d < Len(w) /\ w[d + 1] = "." THEN DigitRunEnd(w, d + 2) ELSE d
        word == LowerText(SubSeq(w, k, Len(w)))
    IN  IF f = Len(w) /\ (d >= k \/ f >= d + 2) THEN NumeralVal(w)
        ELSE IF word = <<"n", "a", "n">> THEN NaN
        ELSE IF word \in {<<"i", "n", "f">>, <<"i", "n", "f", "i", "n", "i", "t", "y">>} THEN Inf(w[1] = "-")
        ELSE Raise("ValueError")

\* the end of a match of [+-]?\d+(?:\.\d+)? that starts at index i of s,
\* or 0 when there is none; the match is the longest one, the only one
\* that what follows in _RR_RANGE_RE can extend
NumberEnd(s, i) ==
    LET k == IF i <= Len(s) /\ s[i] \in {"+", "-"} THEN i + 1 ELSE i
        d == DigitRunEnd(s, k)
        f == IF d < Len(s) /\ s[d + 1] = "." THEN DigitRunEnd(s, d + 2) ELSE d
    IN  IF d < k THEN 0
        ELSE IF f >= d + 2 THEN f ELSE d

RECURSIVE SkipSpaces(_, _)
\* \s* from index i: the index of the first character that is no blank
SkipSpaces(s, i) ==
    IF i <= Len(s) /\ IsSpace(s[i]) THEN SkipSpaces(s, i + 1) ELSE i

\* (?:-|<en dash>|to) at index i, ignoring case: the index after it, or 0
SeparatorEnd(s, i) ==
    IF i <= Len(s) /\ s[i] \in {"-", EnDash} THEN i + 1
    ELSE IF OccursAt(LowerText(s), <<"t", "o">>, i) THEN i + 2
    ELSE 0

\* _RR_RANGE_RE matched at index i: the two groups, or ok = FALSE
RangeMatchAt(s, i) ==
    LET a == NumberEnd(s, i)
        p == IF a = 0 THEN 0 ELSE SeparatorEnd(s, SkipSpaces(s, a + 1))
        q == IF p = 0 THEN 0 ELSE SkipSpaces(s, p)
        b == IF p = 0 THEN 0 ELSE NumberEnd(s, q)
    IN  IF b = 0 THEN [ok |-> FALSE]
        ELSE [ok |-> TRUE, g1 |-> SubSeq(s, i, a), g2 |-> SubSeq(s, q, b)]

RECURSIVE RangeSearchFrom(_, _)
\* the leftmost match of _RR_RANGE_RE in s from index i on
RangeSearchFrom(s, i) ==
    IF i > Len(s) THEN [ok |-> FALSE]
    ELSE LET m == RangeMatchAt(s, i)
         IN  IF m.ok THEN m ELSE RangeSearchFrom(s, i + 1)

\* _RR_RANGE_RE.search(s)
RangeSearch(s) == RangeSearchFrom(s, 1)

\* parse_closed_rr from s = str(x).strip() on
parse_closed_rr_text(text) ==
    LET s == Strip(text)
        m == RangeSearch(s)
    IN  IF s = <<>> THEN NaN
        ELSE IF m.ok
          THEN DecHalf(DecAdd(NumeralVal(m.g1), NumeralVal(m.g2)))
        ELSE LET v == FloatOf(RemoveChar(s, "+"))
             IN  IF v.t = "raise" THEN NaN ELSE v

\* parse_closed_rr(x)
parse_closed_rr(x) ==
    IF IsNa(x) THEN NaN
    ELSE IF x.t = "num" THEN [t |-> "num", m |-> x.m, e |-> x.e]
    ELSE IF x.t = "inf" THEN x
    ELSE IF x.t = "bool" THEN Num(IF x.b THEN 1 ELSE 0)
    ELSE parse_closed_rr_text(StrOf(x))

(***************************************************************************)
(* The row classifier: src/src/edge_analysis/core/parsing.py               *)
(***************************************************************************)

\* the texts normalize_result_label maps to "BE"
BreakevenLabels == {<<"b", "r", "e", "a", "k", "e", "v", "e", "n">>, <<"b", "r", "e", "a", "k", " ", "e", "v", "e", "n">>, <<"b", "/", "e">>}

\* normalize_result_label on a str
normalize_result_label_text(text) ==
    LET t == LowerText(Strip(text))
    IN  IF t = <<"e", "a", "r", "l", "y", " ", "c", "l", "o", "s", "e", " ", "(", "e", "n", "d", "e", "d", " ", "u", "p", " ", "b", "e", "i", "n", "g", " ", "a", " ", "w", "i", "n", ")">> THEN "WIN"
        ELSE IF t = <<"e", "a", "r", "l", "y", " ", "c", "l", "o", "s", "e", " ", "(", "e", "n", "d", "e", "d", " ", "u", "p", " ", "b", "e", "i", "n", "g", " ", "a", " ", "b", "e", ")">> THEN "WIN"
        ELSE IF t = <<"f", "u", "l", "l", " ", "t", "p">> THEN "WIN"
        ELSE IF t \in BreakevenLabels THEN "BE"
        ELSE IF t = <<"l", "o", "s", "s">> THEN "LOSS"
        ELSE ""

\* normalize_result_label(x)
normalize_result_label(x) ==
    IF ~IsStr(x) THEN "" ELSE normalize_result_label_text(x.s)

\* whether a float compares with 0 (NaN does not)
HasSign(v) == v.t \in {"num", "inf"}

\* the outcome for the sign of a float
SignOutcome(v) ==
    IF v.t = "inf" THEN (IF v.neg THEN "Loss" ELSE "Win")
    ELSE IF v.m > 0 THEN "Win" ELSE IF v.m = 0 THEN "BE" ELSE "Loss"

\* float(v) of a cell, inside try/except: a number, or a raised exception
FloatOfCell(v) ==
    CASE v.t = "num" -> [t |-> "num", m |-> v.m, e |-> v.e]
      [] v.t = "bool" -> Num(IF v.b THEN 1 ELSE 0)
      [] v.t = "str" -> FloatOf(v.s)
      [] v.t = "inf" -> v
      [] OTHER -> Raise("TypeError")

\* the variant of classify_outcome_from_fields that consults pnl before
\* closed_rr
classify_outcome_pnl_first(result_raw, closed_rr, pnl) ==
    LET label == normalize_result_label(result_raw)
    IN  IF label = "WIN" THEN "Win"
        ELSE IF label = "BE" THEN "BE"
        ELSE IF label = "LOSS" THEN "Loss"
        ELSE IF ~IsNa(pnl) /\ HasSign(FloatOfCell(pnl))
          THEN SignOutcome(FloatOfCell(pnl))
        ELSE IF ~IsNa(closed_rr) /\ HasSign(FloatOfCell(closed_rr))
          THEN SignOutcome(FloatOfCell(closed_rr))
        ELSE "Unknown"

\* classify_outcome_from_fields(result_raw, closed_rr, pnl), for scalar
\* closed_rr and pnl
classify_outcome_from_fields(result_raw, closed_rr, pnl) ==
    LET label == normalize_result_label(result_raw)
    IN  IF label = "WIN" THEN "Win"
        ELSE IF label = "BE" THEN "BE"
        ELSE IF label = "LOSS" THEN "Loss"
        ELSE IF ~IsNa(closed_rr) /\ HasSign(FloatOfCell(closed_rr))
          THEN SignOutcome(FloatOfCell(closed_rr))
        ELSE IF ~IsNa(pnl) /\ HasSign(FloatOfCell(pnl))
          THEN SignOutcome(FloatOfCell(pnl))
        ELSE "Unknown"

(***************************************************************************)
(* The field parsers: src/src/edge_analysis/core/parsing.py                *)
(***************************************************************************)

\* what the regular expression \w matches
IsWordChar(c) == IsAlpha(c) \/ IsDigit(c) \/ c = "_"

\* \b at the gap before index i of s
WordBoundary(s, i) ==
    LET before == i > 1 /\ i - 1 <= Len(s) /\ IsWordChar(s[i - 1])
        after == i >= 1 /\ i <= Len(s) /\ IsWordChar(s[i])
    IN  before # after

\* \bp\b found somewhere in s
ContainsWord(s, p) ==
    \E i \in 1 .. Len(s) :
        OccursAt(s, p, i) /\ WordBoundary(s, i) /\ WordBoundary(s, i + Len(p))

\* bool(pd.isna(v)), as "if pd.isna(v)" and "not pd.isna(v)" take it.  Of a
\* scalar it is the answer.  Of a list, pd.isna is an array, whose truth
\* value is that of its element when it has one (FALSE: a text is never
\* null) and a ValueError when it has several.  The empty list is left out
\* of the model.
IsNaRaises(v) == v.t = "list" /\ Len(v.l) # 1

IsNaTruth(v) == IF v.t = "list" THEN FALSE ELSE IsNa(v)

\* str.title(): a letter that follows a letter is lower-cased, any other
\* letter upper-cased
Title(s) ==
    [i \in 1 .. Len(s) |->
        IF i > 1 /\ IsAlpha(s[i - 1]) THEN LowerChar(s[i]) ELSE UpperChar(s[i])]

\* infer_instrument from the text s on
infer_instrument_text(s0) ==
    LET t == LowerText(s0)
        s == Strip(s0)
    IN  IF Contains(t, <<"x", "a", "u">>) \/ Contains(t, <<"g", "o", "l", "d">>) THEN <<"G", "o", "l", "d">>
        ELSE IF Contains(t, <<"n", "a", "s">>) \/ Contains(t, <<"n", "d", "x">>)
                \/ Contains(t, <<"n", "a", "s", "d", "a", "q">>) \/ Contains(t, <<"u", "s", "1", "0", "0">>)
          THEN <<"N", "A", "S", "D", "A", "Q">>
        ELSE IF Contains(t, <<"a", "u", "d", "u", "s", "d">>) \/ Contains(t, <<"a", "u", "d", "/", "u", "s", "d">>)
                \/ ContainsWord(t, <<"a", "u">>) \/ ContainsWord(t, <<"a", "u", "d">>)
          THEN <<"A", "U", "D", "U", "S", "D">>
        ELSE IF s # <<>> THEN s ELSE <<"U", "n", "k", "n", "o", "w", "n">>

\* infer_instrument(v)
infer_instrument(v) ==
    IF IsNaRaises(v) THEN Raise("ValueError")
    ELSE Str(infer_instrument_text(IF IsNaTruth(v) THEN <<>> ELSE StrOf(v)))

\* normalize_session(s)
normalize_session(v) ==
    LET t == Strip(LowerText(StrOf(v)))
    IN  IF t = <<>> \/ t = <<"n", "a", "n">> THEN None
        ELSE IF ContainsWord(t, <<"n", "y">>) \/ Contains(t, <<"n", "y", "c">>)
                \/ Contains(t, <<"n", "e", "w", "y", "o", "r", "k">>) \/ Contains(t, <<"n", "e", "w", " ", "y", "o", "r", "k">>)
                \/ Contains(t, <<"u", "s", " ", "s", "e", "s", "s", "i", "o", "n">>) \/ Contains(t, <<"u", "s", " ", "o", "p", "e", "n">>)
                \/ Contains(t, <<"n", "e", "w", "-", "y", "o", "r", "k">>)
          THEN Str(<<"N", "e", "w", " ", "Y", "o", "r", "k">>)
        ELSE IF Contains(t, <<"l", "o", "n", "d", "o", "n">>) \/ Contains(t, <<"l", "d", "n">>)
                \/ Contains(t, <<"u", "k", " ", "s", "e", "s", "s", "i", "o", "n">>) \/ Contains(t, <<"e", "u", " ", "s", "e", "s", "s", "i", "o", "n">>)
                \/ Contains(t, <<"e", "u", "r", "o">>)
          THEN Str(<<"L", "o", "n", "d", "o", "n">>)
        ELSE IF Contains(t, <<"a", "s", "i", "a">>) \/ Contains(t, <<"a", "s", "i", "a", "n">>)
                \/ Contains(t, <<"t", "o", "k", "y", "o">>) \/ Contains(t, <<"s", "y", "d", "n", "e", "y">>)
          THEN Str(<<"A", "s", "i", "a">>)
        ELSE Str(Title(t))

RECURSIVE SplitOn(_, _)
\* re.split over the single characters of seps: the pieces, empty ones too
SplitOn(s, seps) ==
    IF \E i \in 1 .. Len(s) : s[i] \in seps
    THEN LET i == CHOOSE k \in 1 .. Len(s) :
                    s[k] \in seps /\ \A j \in 1 .. (k - 1) : s[j] \notin seps
         IN  <<SubSeq(s, 1, i - 1)>> \o SplitOn(SubSeq(s, i + 1, Len(s)), seps)
    ELSE <<s>>

\* [p.strip() for p in re.split(r"[;,]", s) if p.strip()]
SplitTokens(s) ==
    LET pieces == SplitOn(s, {";", ","})
        stripped == [i \in 1 .. Len(pieces) |-> Strip(pieces[i])]
    IN  SelectSeq(stripped, LAMBDA p : p # <<>>)

\* _split_listish(x): a list of texts, or the exception of `if pd.isna(x)`
split_listish(x) ==
    IF IsNaRaises(x) THEN Raise("ValueError")
    ELSE IF IsNaTruth(x) THEN List(<<>>)
    ELSE List(SplitTokens(Strip(StrOf(x))))

\* normalize_entry_model(x) of a text
normalize_entry_model(x) ==
    LET t == LowerText(Strip(x))
    IN  IF t = <<>> THEN <<>>
        ELSE IF Contains(t, <<"i", "n", "t", "e", "r", "n", "a", "l", " ", "f", "b", "o", "s">>)
          THEN <<"I", "n", "t", "e", "r", "n", "a", "l", " ", "F", "B", "o", "S", " ", "P", "r", "o", "t", "e", "c", "t", "e", "d", " ", "S", "t", "r", "u", "c", "t", "u", "r", "e">>
        ELSE IF Contains(t, <<"e", "x", "t", "e", "r", "n", "a", "l", " ", "f", "b", "o", "s">>)
          THEN <<"E", "x", "t", "e", "r", "n", "a", "l", " ", "F", "B", "O", "S", " ", "P", "r", "o", "t", "e", "c", "t", "e", "d", " ", "S", "t", "r", "u", "c", "t", "u", "r", "e">>
        ELSE IF Contains(t, <<"i", "n", "t", "e", "r", "n", "a", "l", " ", "p", "r", "o", "t", "e", "c", "t", "e", "d", " ", "s", "t", "r", "u", "c", "t", "u", "r", "e">>)
          THEN <<"I", "n", "t", "e", "r", "n", "a", "l", " ", "P", "r", "o", "t", "e", "c", "t", "e", "d", " ", "S", "t", "r", "u", "c", "t", "u", "r", "e">>
        ELSE IF Contains(t, <<"e", "x", "t", "e", "r", "n", "a", "l", " ", "p", "r", "o", "t", "e", "c", "t", "e", "d", " ", "s", "t", "r", "u", "c", "t", "u", "r", "e">>)
          THEN <<"E", "x", "t", "e", "r", "n", "a", "l", " ", "P", "r", "o", "t", "e", "c", "t", "e", "d", " ", "S", "t", "r", "u", "c", "t", "u", "r", "e">>
        ELSE IF Contains(t, <<"i", "n", "t", "e", "r", "n", "a", "l", " ", "n", "o", " ", "c", "l", "o", "s", "e">>) THEN <<"I", "n", "t", "e", "r", "n", "a", "l", " ", "N", "o", " ", "C", "l", "o", "s", "e">>
        ELSE IF Contains(t, <<"e", "x", "t", "e", "r", "n", "a", "l", " ", "n", "o", " ", "c", "l", "o", "s", "e">>) THEN <<"E", "x", "t", "e", "r", "n", "a", "l", " ", "N", "o", " ", "C", "l", "o", "s", "e">>
        ELSE IF t \in {<<"y", "e", "s">>, <<"n", "o">>, <<"n", "/", "a">>, <<"n", "a">>} THEN <<>>
        ELSE Title(t)

MODEL_SET ==
    {<<"I", "n", "t", "e", "r", "n", "a", "l", " ", "F", "B", "o", "S", " ", "P", "r", "o", "t", "e", "c", "t", "e", "d", " ", "S", "t", "r", "u", "c", "t", "u", "r", "e">>, <<"I", "n", "t", "e", "r", "n", "a", "l", " ", "N", "o", " ", "C", "l", "o", "s", "e">>,
     <<"I", "n", "t", "e", "r", "n", "a", "l", " ", "P", "r", "o", "t", "e", "c", "t", "e", "d", " ", "S", "t", "r", "u", "c", "t", "u", "r", "e">>, <<"E", "x", "t", "e", "r", "n", "a", "l", " ", "F", "B", "O", "S", " ", "P", "r", "o", "t", "e", "c", "t", "e", "d", " ", "S", "t", "r", "u", "c", "t", "u", "r", "e">>,
     <<"E", "x", "t", "e", "r", "n", "a", "l", " ", "N", "o", " ", "C", "l", "o", "s", "e">>, <<"E", "x", "t", "e", "r", "n", "a", "l", " ", "P", "r", "o", "t", "e", "c", "t", "e", "d", " ", "S", "t", "r", "u", "c", "t", "u", "r", "e">>}

\* the ASCII characters 32 .. 95 and 97 .. 126, in order
AsciiLow ==
    <<" ", "!", "\"", "#", "$", "%", "&", "'", "(", ")", "*", "+", ",",
      "-", ".", "/", "0", "1", "2", "3", "4", "5", "6", "7", "8", "9", ":",
      ";", "<", "=", ">", "?", "@", "A", "B", "C", "D", "E", "F", "G", "H",
      "I", "J", "K", "L", "M", "N", "O", "P", "Q", "R", "S", "T", "U", "V",
      "W", "X", "Y", "Z", "[", "\\", "]", "^", "_">>

AsciiHigh ==
    <<"a", "b", "c", "d", "e", "f", "g", "h", "i", "j", "k", "l", "m", "n",
      "o", "p", "q", "r", "s", "t", "u", "v", "w", "x", "y", "z", "{", "|",
      "}", "~">>

\* the code point of a character
Ord(c) ==
    IF c = "\t" THEN 9
    ELSE IF c = "\n" THEN 10
    ELSE IF c = EnDash THEN 8211
    ELSE IF c = EmDash THEN 8212
    ELSE IF \E i \in 1 .. Len(AsciiLow) : AsciiLow[i] = c
      THEN 31 + (CHOOSE i \in 1 .. Len(AsciiLow) : AsciiLow[i] = c)
    ELSE 96 + (CHOOSE i \in 1 .. Len(AsciiHigh) : AsciiHigh[i] = c)

\* a < b for texts: the order of sorted()
TextLess(a, b) ==
    \/ /\ Len(a) < Len(b)
       /\ \A i \in 1 .. Len(a) : a[i] = b[i]
    \/ \E i \in 1 .. Len(a) :
        /\ i <= Len(b)
        /\ Ord(a[i]) < Ord(b[i])
        /\ \A j \in 1 .. (i - 1) : a[j] = b[j]

RECURSIVE SortTexts(_)
\* sorted(S) of a set of texts
SortTexts(S) ==
    IF S = {} THEN <<>>
    ELSE LET m == CHOOSE x \in S : \A y \in S \ {x} : TextLess(x, y)
         IN  <<m>> \o SortTexts(S \ {m})

RECURSIVE Dedup(_)
\* the elements of a sequence, each kept at its first occurrence
Dedup(q) ==
    IF q = <<>> THEN <<>>
    ELSE LET r == Dedup(SubSeq(q, 1, Len(q) - 1))
             x == q[Len(q)]
         IN  IF \E i \in 1 .. Len(r) : r[i] = x THEN r ELSE Append(r, x)

\* build_models_list(entry_model, multi_entry)
build_models_list(entry_model, multi_entry) ==
    LET a == split_listish(entry_model)
        b == IF a.t = "raise" THEN a ELSE split_listish(multi_entry)
    IN  IF a.t = "raise" THEN a
        ELSE IF b.t = "raise" THEN b
        ELSE LET toks == a.l \o b.l
                 models == [i \in 1 .. Len(toks) |-> normalize_entry_model(toks[i])]
                 keep == Dedup(SelectSeq(models, LAMBDA m : m \in MODEL_SET))
             IN  IF keep # <<>> THEN List(keep)
                 ELSE List(SortTexts({models[i] : i \in 1 .. Len(models)}))

\* normalize_account_group(s)
normalize_account_group(v) ==
    IF ~IsStr(v) \/ Strip(v.s) = <<>> THEN None
    ELSE LET t == LowerText(Strip(v.s))
         IN  IF t \in {<<"l", "a", "t", "e", " ", "f", "t">>, <<"f", "t", " ", "o", "n", " ", "d", "e", "m", "o", " ", "c", "h", "a", "l", "l", "e", "n", "g", "e">>}
               THEN Str(<<"F", "o", "r", "w", "a", "r", "d", " ", "T", "e", "s", "t">>)
             ELSE IF t = <<"l", "i", "v", "e", " ", "o", "n", " ", "c", "h", "a", "l", "l", "e", "n", "g", "e">> THEN Str(<<"C", "h", "a", "l", "l", "e", "n", "g", "e", " ", "A", "c", "c", "o", "u", "n", "t", "s">>)
             ELSE IF t = <<"l", "i", "v", "e", " ", "o", "n", " ", "f", "u", "n", "d", "e", "d">> THEN Str(<<"F", "u", "n", "d", "e", "d", " ", "A", "c", "c", "o", "u", "n", "t">>)
             ELSE IF t \in {<<"l", "i", "v", "e", " ", "o", "n", " ", "p", "e", "r", "s", "o", "n", "a", "l">>,
                            <<"l", "i", "v", "e", " ", "o", "n", " ", "t", "r", "a", "c", "k", " ", "r", "e", "c", "o", "r", "d", " ", "&", " ", "t", "r", "a", "d", "e", " ", "c", "o", "p", "i", "e", "r">>}
               THEN Str(<<"P", "e", "r", "s", "o", "n", "a", "l", " ", "A", "c", "c", "o", "u", "n", "t", "s">>)
             ELSE IF t \in {<<"t", "r", "a", "c", "k", " ", "r", "e", "c", "o", "r", "d", " ", "a", "c", "c", "o", "u", "n", "t">>, <<"l", "i", "v", "e", " ", "o", "n", " ", "t", "r", "a", "c", "k", " ", "r", "e", "c", "o", "r", "d">>,
                            <<"t", "r", "a", "d", "e", " ", "c", "o", "p", "i", "e", "r">>}
               THEN Str(<<"T", "r", "a", "c", "k", " ", "R", "e", "c", "o", "r", "d", " ", "A", "c", "c", "o", "u", "n", "t">>)
             ELSE Str(Title(Strip(v.s)))

\* v <= n for a float v and a natural number n
DecLeq(v, n) ==
    CASE v.t = "num" -> v.m <= n * Pow10(v.e)
      [] v.t = "inf" -> v.neg
      [] v.t = "nan" -> FALSE

LessEqual == "<le>"

\* the bin of a number of minutes
DurationLabel(v) ==
    IF DecLeq(v, 30) THEN Str(<<LessEqual, "3", "0", "m">>)
    ELSE IF DecLeq(v, 120) THEN Str(<<"3", "0", "m", EnDash, "2", "h">>)
    ELSE IF DecLeq(v, 360) THEN Str(<<"2", EnDash, "6", "h">>)
    ELSE Str(<<">", "6", "h">>)

\* build_duration_bin(minutes)
build_duration_bin(minutes) ==
    LET v == FloatOfCell(minutes)
    IN  IF IsNaRaises(minutes) THEN Raise("ValueError")
        ELSE IF IsNaTruth(minutes) THEN NaN
        ELSE IF v.t = "raise" THEN v
        ELSE DurationLabel(v)

(***************************************************************************)
(* The parser calls.                                                       *)
(***************************************************************************)

\* largest length of the generated Closed RR texts
MaxTextLen == 3

ResultTexts ==
    {<<"F", "u", "l", "l", " ", "T", "P">>, <<"f", "u", "l", "l", " ", "t", "p">>, <<" ", " ", "F", "U", "L", "L", " ", "T", "P", " ">>,
     <<"E", "a", "r", "l", "y", " ", "C", "l", "o", "s", "e", " ", "(", "e", "n", "d", "e", "d", " ", "u", "p", " ", "b", "e", "i", "n", "g", " ", "a", " ", "w", "i", "n", ")">>,
     <<"e", "a", "r", "l", "y", " ", "c", "l", "o", "s", "e", " ", "(", "e", "n", "d", "e", "d", " ", "u", "p", " ", "b", "e", "i", "n", "g", " ", "a", " ", "B", "E", ")">>,
     <<"B", "r", "e", "a", "k", "e", "v", "e", "n">>, <<"b", "r", "e", "a", "k", "e", "v", "e", "n">>, <<"B", "E">>, <<"b", "e">>, <<" ", "B", "e", " ">>,
     <<"B", "r", "e", "a", "k", " ", "E", "v", "e", "n">>, <<"b", "r", "e", "a", "k", " ", "e", "v", "e", "n">>, <<"B", "/", "E">>, <<"b", "/", "e">>,
     <<"L", "o", "s", "s">>, <<"l", "o", "s", "s">>, <<"L", "O", "S", "S", " ">>, <<"W", "i", "n">>, <<>>, <<" ", " ">>, <<"a", "b", "c">>,
     <<"F", "u", "l", "l", " ", "T", "P", ",", " ", "L", "o", "s", "s">>}

OtherTexts ==
    {<<"X", "A", "U", "U", "S", "D">>, <<"g", "o", "l", "d">>, <<"N", "A", "S", "1", "0", "0">>, <<"A", "U", "D", "/", "U", "S", "D">>, <<"a", "u">>, <<"E", "U", "R", "U", "S", "D">>,
     <<" ", "e", "u", "r", "u", "s", "d", " ">>, <<"N", "Y">>, <<"n", "e", "w", " ", "y", "o", "r", "k">>, <<"L", "o", "n", "d", "o", "n">>, <<"l", "d", "n">>, <<"T", "o", "k", "y", "o">>,
     <<"a", "n", "y">>, <<"n", "a", "n">>, <<"i", "n", "f">>, <<"p", "r", "e", "-", "m", "a", "r", "k", "e", "t">>,
     <<"I", "n", "t", "e", "r", "n", "a", "l", " ", "F", "B", "O", "S">>, <<"E", "x", "t", "e", "r", "n", "a", "l", " ", "N", "o", " ", "C", "l", "o", "s", "e">>, <<"B", "r", "e", "a", "k", "o", "u", "t">>, <<"y", "e", "s">>,
     <<"B", "r", "e", "a", "k", "o", "u", "t", ",", " ", "i", "n", "t", "e", "r", "n", "a", "l", " ", "n", "o", " ", "c", "l", "o", "s", "e">>, <<"b", ";", "a">>,
     <<"l", "a", "t", "e", " ", "f", "t">>, <<"L", "i", "v", "e", " ", "o", "n", " ", "F", "u", "n", "d", "e", "d">>, <<"t", "r", "a", "d", "e", " ", "c", "o", "p", "i", "e", "r">>, <<"m", "y", " ", "a", "c", "c", "o", "u", "n", "t">>,
     <<"3", "0">>, <<"4", "5", ".", "5">>, <<"1", "2", "1">>, <<"4", "0", "0">>}

\* decimal numerals, each with its value in hundredths
Numerals ==
    {[text |-> <<"2">>, h |-> 200], [text |-> <<"3">>, h |-> 300],
     [text |-> <<"+", "2">>, h |-> 200], [text |-> <<"-", "1">>, h |-> -100],
     [text |-> <<"-", "2">>, h |-> -200], [text |-> <<"1", ".", "5">>, h |-> 150],
     [text |-> <<"0">>, h |-> 0], [text |-> <<"+", "0", ".", "2", "5">>, h |-> 25],
     [text |-> <<"1", "0">>, h |-> 1000], [text |-> <<".", "5">>, h |-> 50]}

\* the ways a range is written between its two numbers
RangeSeps == {<<"-">>, <<EnDash>>, <<"t", "o">>, <<" ", "t", "o", " ">>, <<" ", "T", "O", " ">>, <<" ", "-", " ">>}

RangeTexts ==
    {a.text \o sep \o b.text : a \in Numerals, sep \in RangeSeps,
                               b \in Numerals}

PlainTexts ==
    {n.text : n \in Numerals}
        \cup {<<"+">> \o n.text : n \in {k \in Numerals : IsDigit(k.text[1])}}

\* lists of Closed RR values as a multi-select renders them
ListTexts ==
    {<<"1", ",", " ", "2">>, <<"+", "0", ",", " ", "+", "1", "-", "2", ",", " ", "-", "2">>, <<"1", ";", "2">>, <<"x", ",", " ", "3">>, <<"3", ",", " ", "x">>, <<"x", ",", " ", "y">>,
     <<"2", ",">>}

RRChars == {"1", "2", "+", "-", ".", ",", " ", "t", "o", EnDash}

GeneratedTexts == SeqsUpTo(RRChars, MaxTextLen)

RRTexts == RangeTexts \cup PlainTexts \cup ListTexts \cup GeneratedTexts

Texts == ResultTexts \cup OtherTexts \cup RRTexts

\* a number with e = 0 stands for an int, one with e > 0 for a float
RawNumbers == {Num(0), Num(30), Num(31), Num(-2), Num(400), DecNorm(25, 1)}

RawLists == {List(<<<<"a">>>>), List(<<<<"X", "A", "U">>, <<"N", "Y">>>>), List(<<<<"1", "2">>>>)}

RawValues ==
    {Str(s) : s \in Texts} \cup {None, NaN, Bool(TRUE), Bool(FALSE)}
        \cup RawNumbers \cup RawLists

\* the cells classify_outcome_from_fields receives from load_live_df
ResultCells ==
    {None, NaN} \cup
    {Str(s) : s \in {<<"F", "u", "l", "l", " ", "T", "P">>, <<"L", "o", "s", "s">>, <<"b", "r", "e", "a", "k", "e", "v", "e", "n">>, <<"b", "e">>,
                     <<"e", "a", "r", "l", "y", " ", "c", "l", "o", "s", "e", " ", "(", "e", "n", "d", "e", "d", " ", "u", "p", " ", "b", "e", "i", "n", "g", " ", "a", " ", "B", "E", ")">>, <<>>, <<"a", "b", "c">>}}

NumberCells == {None, NaN, Num(0), Num(3), Num(-1), DecNorm(25, 1), DecNorm(-5, 1)}

ModelCells ==
    {None, NaN, List(<<<<"a">>, <<"b">>>>)} \cup
    {Str(s) : s \in {<<"I", "n", "t", "e", "r", "n", "a", "l", " ", "F", "B", "O", "S">>, <<"B", "r", "e", "a", "k", "o", "u", "t", ",", " ", "i", "n", "t", "e", "r", "n", "a", "l", " ", "n", "o", " ", "c", "l", "o", "s", "e">>,
                     <<"y", "e", "s", ",", " ", "b", "r", "e", "a", "k", "o", "u", "t">>, <<"b", ";", "a">>, <<>>}}

ValueArgs == [kind : {"value"}, x : RawValues]

FieldsArgs ==
    [kind : {"fields"}, result_raw : ResultCells, closed_rr : NumberCells,
     pnl : NumberCells]

ModelsArgs == [kind : {"models"}, entry_model : ModelCells, multi_entry : ModelCells]

InitParsers ==
    /\ pc = "start"
    /\ call = ""
    /\ args \in ValueArgs \cup FieldsArgs \cup ModelsArgs
    /\ result = NoResult

\* a call f(x) that returned r
Returns(f, r) ==
    /\ pc = "start"
    /\ result' = r
    /\ call' = f
    /\ pc' = "done"
    /\ UNCHANGED args

InferInstrument ==
    args.kind = "value" /\ Returns("infer_instrument", infer_instrument(args.x))

NormalizeSession ==
    args.kind = "value" /\ Returns("normalize_session", normalize_session(args.x))

ParseClosedRR ==
    args.kind = "value" /\ Returns("parse_closed_rr", parse_closed_rr(args.x))

NormalizeResultLabel ==
    /\ args.kind = "value"
    /\ Returns("normalize_result_label",
               [t |-> "label", v |-> normalize_result_label(args.x)])

BuildDurationBin ==
    args.kind = "value" /\ Returns("build_duration_bin", build_duration_bin(args.x))

NormalizeAccountGroup ==
    /\ args.kind = "value"
    /\ Returns("normalize_account_group", normalize_account_group(args.x))

BuildModelsList ==
    /\ args.kind = "models"
    /\ Returns("build_models_list",
               build_models_list(args.entry_model, args.multi_entry))

ClassifyOutcome ==
    /\ args.kind = "fields"
    /\ Returns("classify_outcome_from_fields",
               [t |-> "outcome",
                v |-> classify_outcome_from_fields(args.result_raw,
                                                   args.closed_rr, args.pnl)])

NextParsers ==
    \/ InferInstrument
    \/ NormalizeSession
    \/ ParseClosedRR
    \/ NormalizeResultLabel
    \/ BuildDurationBin
    \/ NormalizeAccountGroup
    \/ BuildModelsList
    \/ ClassifyOutcome

SpecParsers == InitParsers /\ [][NextParsers]_vars

(***************************************************************************)
(* The row classifier and the Closed RR parser against their contracts.    *)
(***************************************************************************)

Returned(f) == pc = "done" /\ call = f

OutcomeOfLabel(label) ==
    CASE label = "WIN" -> RESULT_WIN
      [] label = "BE" -> RESULT_BE
      [] label = "LOSS" -> RESULT_LOSS

OutcomeOfSign(v) ==
    IF v.m > 0 THEN RESULT_WIN ELSE IF v.m = 0 THEN RESULT_BE ELSE RESULT_LOSS

\* C3: classify_outcome_from_fields returns the outcome of the result label
\* whenever normalize_result_label gives one, whatever closed_rr and pnl are;
\* otherwise the outcome of the sign of closed_rr when that is a number;
\* otherwise the outcome of the sign of pnl when that is a number; otherwise
\* Unknown.  While the label or closed_rr resolves, no pnl changes the answer.
C3_OutcomePrecedence ==
    Returned("classify_outcome_from_fields") =>
        LET label == normalize_result_label(args.result_raw)
        IN  /\ result.v =
                 (IF label # "" THEN OutcomeOfLabel(label)
                  ELSE IF IsNum(args.closed_rr) THEN OutcomeOfSign(args.closed_rr)
                  ELSE IF IsNum(args.pnl) THEN OutcomeOfSign(args.pnl)
                  ELSE "Unknown")
            /\ (label # "" \/ IsNum(args.closed_rr)) =>
                 \A p \in NumberCells :
                     classify_outcome_from_fields(args.result_raw,
                                                  args.closed_rr, p) = result.v

\* a row without label whose closed_rr is positive and whose pnl is negative
\* was classified Win
C3_Witness ==
    /\ Returned("classify_outcome_from_fields")
    /\ args.result_raw = None
    /\ args.closed_rr = DecNorm(25, 1)
    /\ args.pnl = Num(-1)
    /\ result.v = RESULT_WIN

ClaimedWinLabels ==
    {<<"f", "u", "l", "l", " ", "t", "p">>, <<"e", "a", "r", "l", "y", " ", "c", "l", "o", "s", "e", " ", "(", "e", "n", "d", "e", "d", " ", "u", "p", " ", "b", "e", "i", "n", "g", " ", "a", " ", "w", "i", "n", ")">>,
     <<"e", "a", "r", "l", "y", " ", "c", "l", "o", "s", "e", " ", "(", "e", "n", "d", "e", "d", " ", "u", "p", " ", "b", "e", "i", "n", "g", " ", "a", " ", "b", "e", ")">>}

ClaimedBELabels == {<<"b", "r", "e", "a", "k", "e", "v", "e", "n">>, <<"b", "e">>, <<"b", "r", "e", "a", "k", " ", "e", "v", "e", "n">>, <<"b", "/", "e">>}

\* C4: normalize_result_label, ignoring case and surrounding blanks, maps the
\* three win labels to WIN, "breakeven", "be", "break even" and "b/e" to BE,
\* "loss" to LOSS, and every other input, non-strings included, to "".
C4_ResultLabelMapping ==
    Returned("normalize_result_label") =>
        LET t == IF IsStr(args.x) THEN LowerText(Strip(args.x.s)) ELSE <<>>
        IN  result.v =
                (IF ~IsStr(args.x) THEN ""
                 ELSE IF t \in ClaimedWinLabels THEN "WIN"
                 ELSE IF t \in ClaimedBELabels THEN "BE"
                 ELSE IF t = <<"l", "o", "s", "s">> THEN "LOSS"
                 ELSE "")

\* the result is the number of h hundredths
IsHundredths(r, h) == IsNum(r) /\ r.m * 100 = h * Pow10(r.e)

\* the result is the number of h two-hundredths
IsTwoHundredths(r, h) == IsNum(r) /\ r.m * 200 = h * Pow10(r.e)

ClaimedSeps == {<<"-">>, <<EnDash>>, <<" ", "t", "o", " ">>}

HasDigit(s) == \E i \in 1 .. Len(s) : IsDigit(s[i])

\* C5: parse_closed_rr of "a-b", of a and b around an en dash and of
\* "a to b" is (a+b)/2 for all numerals a and b; of a numeral, also after a
\* leading "+", it is the numeral's value; of a text without a number it is
\* null.
C5_RangeMean ==
    (Returned("parse_closed_rr") /\ IsStr(args.x)) =>
        /\ \A a \in Numerals, b \in Numerals, sep \in ClaimedSeps :
               args.x.s = a.text \o sep \o b.text =>
                   IsTwoHundredths(result, a.h + b.h)
        /\ \A n \in Numerals :
               (\/ args.x.s = n.text
                \/ (n.text[1] \notin {"+", "-"} /\ args.x.s = <<"+">> \o n.text)) =>
                   IsHundredths(result, n.h)
        /\ (~HasDigit(args.x.s) /\ FloatOf(args.x.s).t = "raise") => result = NaN

\* the tokens of a comma or semicolon separated text that parse to a number
ParsableTokens(s) ==
    SelectSeq(SplitTokens(s), LAMBDA tok : IsNum(parse_closed_rr_text(tok)))

\* C6: parse_closed_rr of a text that is neither a number nor a range but a
\* comma or semicolon separated list with a parsable token is the value of
\* the last parsable token.
C6_LastParsableToken ==
    (/\ Returned("parse_closed_rr")
     /\ IsStr(args.x)
     /\ ~IsNum(parse_closed_rr_text(args.x.s))
     /\ Len(SplitTokens(args.x.s)) > 1
     /\ ParsableTokens(args.x.s) # <<>>) =>
        LET toks == ParsableTokens(args.x.s)
        IN  result = parse_closed_rr_text(toks[Len(toks)])

\* null, a list, or a text that spells no number
NotANumber(x) ==
    \/ x.t \in {"none", "nan", "list"}
    \/ IsStr(x) /\ FloatOf(x.s).t = "raise"

FieldParsers ==
    {"infer_instrument", "normalize_session", "parse_closed_rr",
     "normalize_result_label", "build_models_list", "build_duration_bin",
     "normalize_account_group"}

\* C7: on a string, a number, a boolean, a list of strings or null every field
\* parser returns a value and raises nothing, and build_duration_bin of what
\* is not a number is null.
C7_ParsersNeverRaise ==
    (pc = "done" /\ call \in FieldParsers) =>
        /\ result.t # "raise"
        /\ (call = "build_duration_bin" /\ NotANumber(args.x)) => result = NaN

(***************************************************************************)
(* Dates.  pd.to_datetime gives a Timestamp or NaT; the texts it is given  *)
(* here are ISO dates YYYY-MM-DD, empty or no date at all.                 *)
(***************************************************************************)

NaT == [t |-> "nat"]

Timestamp(y, m, d) == [t |-> "ts", y |-> y, m |-> m, d |-> d]

\* a datetime.date
Date(y, m, d) == [t |-> "date", y |-> y, m |-> m, d |-> d]

\* pd.isna of a scalar cell
IsNull(v) == v.t \in {"none", "nan", "nat"}

IsLeap(y) == (y % 4 = 0 /\ y % 100 # 0) \/ y % 400 = 0

DaysInMonth(y, m) ==
    IF m = 2 THEN (IF IsLeap(y) THEN 29 ELSE 28)
    ELSE IF m \in {4, 6, 9, 11} THEN 30 ELSE 31

\* the Timestamp an ISO date text stands for, NaT for any other text
ParseDate(s) ==
    IF /\ Len(s) = 10
       /\ s[5] = "-" /\ s[8] = "-"
       /\ \A i \in {1, 2, 3, 4, 6, 7, 9, 10} : IsDigit(s[i])
    THEN LET y == DigitsVal(SubSeq(s, 1, 4))
             m == DigitsVal(SubSeq(s, 6, 7))
             d == DigitsVal(SubSeq(s, 9, 10))
         IN  IF m \in 1 .. 12 /\ d >= 1 /\ d <= DaysInMonth(y, m)
             THEN Timestamp(y, m, d) ELSE NaT
    ELSE NaT

\* pd.to_datetime(cell, errors="coerce")
ToDatetime(v) ==
    CASE v.t = "str" -> ParseDate(Strip(v.s))
      [] v.t = "ts" -> v
      [] v.t = "date" -> Timestamp(v.y, v.m, v.d)
      [] OTHER -> NaT

\* .dt.date
DtDate(v) == IF v.t = "ts" THEN Date(v.y, v.m, v.d) ELSE NaT

\* the days from 1970-01-01 to the day y-m-d
DayNumber(y, m, d) ==
    LET yy == IF m <= 2 THEN y - 1 ELSE y
        era == yy \div 400
        yoe == yy - era * 400
        mp == IF m > 2 THEN m - 3 ELSE m + 9
        doy == (153 * mp + 2) \div 5 + d - 1
        doe == yoe * 365 + yoe \div 4 - yoe \div 100 + doy
    IN  era * 146097 + doe - 719468

\* Monday is 1, Sunday is 7
IsoWeekday(y, m, d) == ((DayNumber(y, m, d) + 3) % 7) + 1

DayNames ==
    <<<<"M", "o", "n", "d", "a", "y">>, <<"T", "u", "e", "s", "d", "a", "y">>, <<"W", "e", "d", "n", "e", "s", "d", "a", "y">>, <<"T", "h", "u", "r", "s", "d", "a", "y">>, <<"F", "r", "i", "d", "a", "y">>,
      <<"S", "a", "t", "u", "r", "d", "a", "y">>, <<"S", "u", "n", "d", "a", "y">>>>

\* .dt.day_name()
DayName(v) ==
    IF v.t = "ts" THEN Str(DayNames[IsoWeekday(v.y, v.m, v.d)]) ELSE NaN

\* .dt.hour; the dates of the model carry no time of day
Hour(v) == IF v.t = "ts" THEN Num(0) ELSE NaN

\* n written with at least w digits
Pad(n, w) ==
    LET s == NatText(n)
    IN  [i \in 1 .. (w - Len(s)) |-> "0"] \o s

DateText(v) == Pad(v.y, 4) \o <<"-">> \o Pad(v.m, 2) \o <<"-">> \o Pad(v.d, 2)

\* .dt.to_period("M").astype(str)
MonthText(v) ==
    IF v.t = "ts" THEN Str(Pad(v.y, 4) \o <<"-">> \o Pad(v.m, 2))
    ELSE Str(<<"N", "a", "T">>)

WeeksInYear(y) ==
    LET jan1 == IsoWeekday(y, 1, 1)
    IN  IF jan1 = 4 \/ (IsLeap(y) /\ jan1 = 3) THEN 53 ELSE 52

\* .dt.isocalendar().week
IsoWeek(v) ==
    IF v.t # "ts" THEN NaN
    ELSE LET ordinal == DayNumber(v.y, v.m, v.d) - DayNumber(v.y, 1, 1) + 1
             w == (ordinal - IsoWeekday(v.y, v.m, v.d) + 10) \div 7
         IN  IF w < 1 THEN Num(WeeksInYear(v.y - 1))
             ELSE IF w > WeeksInYear(v.y) THEN Num(1)
             ELSE Num(w)

\* str(cell), as .astype(str) takes it
AsStr(v) ==
    CASE v.t = "nat" -> <<"N", "a", "T">>
      [] v.t = "ts" -> DateText(v)
      [] v.t = "date" -> DateText(v)
      [] OTHER -> StrOf(v)

\* pd.to_numeric(cell, errors="coerce")
ToNumeric(v) ==
    CASE v.t = "num" -> v
      [] v.t = "bool" -> Num(IF v.b THEN 1 ELSE 0)
      [] v.t = "str" ->
           (LET f == FloatOf(v.s) IN IF f.t = "raise" THEN NaN ELSE f)
      [] OTHER -> NaN

(***************************************************************************)
(* Tables.  A DataFrame is its column labels in order, its row labels and  *)
(* its rows, each the cells under the columns.  The tables of the model    *)
(* carry no label twice when a column is read or assigned by label.        *)
(***************************************************************************)

Frame(columns, index, data) ==
    [t |-> "frame", columns |-> columns, index |-> index, data |-> data]

\* pd.DataFrame()
EmptyFrame == Frame(<<>>, <<>>, <<>>)

NumRows(df) == Len(df.index)

HasCol(df, c) == \E i \in 1 .. Len(df.columns) : df.columns[i] = c

\* the place of the first column labelled c
ColPos(df, c) ==
    CHOOSE i \in 1 .. Len(df.columns) :
        df.columns[i] = c /\ \A j \in 1 .. (i - 1) : df.columns[j] # c

\* df[c] at row r
Cell(df, r, c) == df.data[r][ColPos(df, c)]

\* r.get(c) of row r
RowGet(df, r, c) == IF HasCol(df, c) THEN df.data[r][ColPos(df, c)] ELSE None

\* df[c] = series
SetColumn(df, c, series) ==
    IF HasCol(df, c)
    THEN [df EXCEPT !.data =
             [r \in 1 .. NumRows(df) |->
                 [df.data[r] EXCEPT ![ColPos(df, c)] = series[r]]]]
    ELSE [df EXCEPT !.columns = Append(@, c),
                    !.data = [r \in 1 .. NumRows(df) |->
                                 Append(df.data[r], series[r])]]

\* df[c] = value
SetConstant(df, c, value) ==
    SetColumn(df, c, [r \in 1 .. NumRows(df) |-> value])

\* df[c] = series where the series comes from .apply: the first exception a
\* cell raised ends the call
SetApplied(df, c, series) ==
    IF \E r \in 1 .. NumRows(df) : series[r].t = "raise"
    THEN series[CHOOSE r \in 1 .. NumRows(df) :
                    /\ series[r].t = "raise"
                    /\ \A q \in 1 .. (r - 1) : series[q].t # "raise"]
    ELSE SetColumn(df, c, series)

RECURSIVE Concat(_)
\* the sequences of a sequence, one after the other
Concat(ss) == IF ss = <<>> THEN <<>> ELSE Head(ss) \o Concat(Tail(ss))

\* the places of the columns labelled c, in order
PositionsOf(columns, c) ==
    SelectSeq([i \in 1 .. Len(columns) |-> i], LAMBDA i : columns[i] = c)

\* df[order]: for each label of order, every column that carries it
SelectColumns(df, order) ==
    LET places == Concat([k \in 1 .. Len(order) |-> PositionsOf(df.columns, order[k])])
    IN  Frame([k \in 1 .. Len(places) |-> df.columns[places[k]]],
              df.index,
              [r \in 1 .. NumRows(df) |->
                  [k \in 1 .. Len(places) |-> df.data[r][places[k]]]])

\* df[mask]
FilterRows(df, mask) ==
    LET kept == SelectSeq([r \in 1 .. NumRows(df) |-> r], LAMBDA r : mask[r])
    IN  Frame(df.columns,
              [k \in 1 .. Len(kept) |-> df.index[kept[k]]],
              [k \in 1 .. Len(kept) |-> df.data[kept[k]]])

(***************************************************************************)
(* The template adapter: src/src/edge_analysis/data/template_adapter.py.   *)
(* A mapping profile is its name, its columns (pairs of a source label and *)
(* a canonical label), its normalizers (pairs of a label and rules, each   *)
(* rule a target and its variants) and its coercions (pairs of a label and *)
(* a kind), each in the order of the JSON file.                            *)
(***************************************************************************)

CANONICAL_ORDER ==
    <<<<"D", "a", "t", "e">>, <<"P", "a", "i", "r">>, <<"S", "e", "s", "s", "i", "o", "n">>, <<"E", "n", "t", "r", "y", " ", "M", "o", "d", "e", "l">>, <<"C", "o", "n", "f", "l", "u", "e", "n", "c", "e">>,
      <<"O", "u", "t", "c", "o", "m", "e">>, <<"C", "l", "o", "s", "e", "d", " ", "R", "R">>, <<"P", "n", "L">>, <<"I", "s", " ", "C", "o", "m", "p", "l", "e", "t", "e">>, <<"S", "t", "a", "r", " ", "R", "a", "t", "i", "n", "g">>,
      <<"N", "o", "t", "e", "s">>>>

CheckMark == "<check mark>"

\* the characters of s that are in keep
KeepChars(s, keep) == SelectSeq(s, LAMBDA c : c \in keep)

\* _coerce(s, kind), cell by cell
coerce(v, kind) ==
    CASE kind = <<"d", "a", "t", "e">> -> DtDate(ToDatetime(v))
      [] kind = <<"f", "l", "o", "a", "t">> ->
           ToNumeric(Str(KeepChars(AsStr(v), Digits \cup {".", "-"})))
      [] kind = <<"i", "n", "t">> ->
           ToNumeric(Str(KeepChars(AsStr(v), Digits \cup {"-"})))
      [] kind = <<"b", "o", "o", "l">> ->
           Bool(LowerText(Strip(AsStr(v))) \in
                    {<<"t", "r", "u", "e">>, <<"1">>, <<"y", "e", "s">>, <<"y">>, <<CheckMark>>})
      [] OTHER -> v

RECURSIVE normalize_from(_, _, _)
\* the loop of _normalize from rule k on
normalize_from(val, rules, k) ==
    IF k > Len(rules) THEN val
    ELSE IF \E i \in 1 .. Len(rules[k].variants) :
                LowerText(Strip(AsStr(val))) = LowerText(rules[k].variants[i])
      THEN Str(rules[k].target)
    ELSE normalize_from(val, rules, k + 1)

\* _normalize(val, rules)
normalize(val, rules) ==
    IF val.t = "none" THEN Str(<<>>) ELSE normalize_from(val, rules, 1)

\* str(c).strip().lower()
LowerKey(c) == LowerText(Strip(c))

RECURSIVE FirstLowered(_, _, _)
\* the place, from i on, of the first column whose lowered label is key,
\* 0 when there is none
FirstLowered(columns, key, i) ==
    IF i > Len(columns) THEN 0
    ELSE IF LowerKey(columns[i]) = key THEN i
    ELSE FirstLowered(columns, key, i + 1)

\* _cols_lower_map(df).get(key), as the place of the column
LowerMapPos(columns, key) == FirstLowered(columns, key, 1)

\* _find_col(df, name): the place of the column found, 0 when none is
find_col(df, name) ==
    IF HasCol(df, name) THEN ColPos(df, name)
    ELSE LowerMapPos(df.columns, LowerKey(name))

\* _score without the trimming and the lower-casing
score_of_raw_labels(headers, m) ==
    LET src == {m.columns[i].src : i \in 1 .. Len(m.columns)}
        raw == {headers[i] : i \in 1 .. Len(headers)}
    IN  IF src = {} THEN [n |-> 0, d |-> 1]
        ELSE [n |-> Cardinality(raw \cap src), d |-> Cardinality(raw \cup src)]

\* _score(headers, m): the Jaccard similarity, as a fraction n / d
score(headers, m) ==
    LET src == {LowerKey(m.columns[i].src) : i \in 1 .. Len(m.columns)}
        raw == {LowerKey(headers[i]) : i \in 1 .. Len(headers)}
    IN  IF src = {} THEN [n |-> 0, d |-> 1]
        ELSE [n |-> Cardinality(raw \cap src), d |-> Cardinality(raw \cup src)]

\* min_score, in hundredths
MinScoreHundredths == 15

\* a < b for fractions
ScoreLess(a, b) == a.n * b.d < b.n * a.d

\* _choose without the min_score threshold
choose_best_of_any_score(df, maps, force_name) ==
    IF force_name # None /\ force_name.s # <<>>
       /\ \E i \in 1 .. Len(maps) : maps[i].name = force_name.s
    THEN CHOOSE i \in 1 .. Len(maps) :
             /\ maps[i].name = force_name.s
             /\ \A j \in 1 .. (i - 1) : maps[j].name # force_name.s
    ELSE IF maps = <<>> THEN 0
    ELSE LET scores == [i \in 1 .. Len(maps) |-> score(df.columns, maps[i])]
         IN  CHOOSE i \in 1 .. Len(maps) :
                  /\ \A j \in 1 .. Len(maps) : ~ScoreLess(scores[i], scores[j])
                  /\ \A j \in 1 .. (i - 1) : ScoreLess(scores[j], scores[i])

\* _choose(df, maps, force_name=force_name): the place of the profile
\* chosen in maps, 0 when none is
choose(df, maps, force_name) ==
    IF force_name # None /\ force_name.s # <<>>
       /\ \E i \in 1 .. Len(maps) : maps[i].name = force_name.s
    THEN CHOOSE i \in 1 .. Len(maps) :
             /\ maps[i].name = force_name.s
             /\ \A j \in 1 .. (i - 1) : maps[j].name # force_name.s
    ELSE IF maps = <<>> THEN 0
    ELSE LET scores == [i \in 1 .. Len(maps) |-> score(df.columns, maps[i])]
             best == CHOOSE i \in 1 .. Len(maps) :
                  /\ \A j \in 1 .. Len(maps) : ~ScoreLess(scores[i], scores[j])
                  /\ \A j \in 1 .. (i - 1) : ScoreLess(scores[j], scores[i])
         IN  IF scores[best].n * 100 >= MinScoreHundredths * scores[best].d
             THEN best ELSE 0

\* step 1 of _adapt_with: the rename dict maps the label the lowered source
\* finds to the target, later entries winning
RenameColumns(df, m) ==
    LET found == [k \in 1 .. Len(m.columns) |->
                     LowerMapPos(df.columns, LowerKey(m.columns[k].src))]
        Hits(i) == SelectSeq([k \in 1 .. Len(m.columns) |-> k],
                             LAMBDA k : found[k] # 0
                                        /\ df.columns[found[k]] = df.columns[i])
    IN  [df EXCEPT !.columns =
            [i \in 1 .. Len(df.columns) |->
                IF Hits(i) # <<>> THEN m.columns[Hits(i)[Len(Hits(i))]].dst
                ELSE df.columns[i]]]

RECURSIVE EnsureCanonical(_, _)
\* step 2 of _adapt_with, from the k-th canonical column on
EnsureCanonical(df, k) ==
    IF k > Len(CANONICAL_ORDER) THEN df
    ELSE EnsureCanonical(
             IF HasCol(df, CANONICAL_ORDER[k]) THEN df
             ELSE SetConstant(df, CANONICAL_ORDER[k], Str(<<>>)),
             k + 1)

\* the place of the column each entry's key finds, 0 when it finds none
EntryPlaces(df, entries) ==
    [k \in 1 .. Len(entries) |-> find_col(df, entries[k].key)]

\* the last entry that found the column at place p, 0 when none did: what
\* the dict built by _get_normalizers_ci and _get_coercions_ci holds for it
LastEntryFor(places, p) ==
    IF \E k \in 1 .. Len(places) : places[k] = p
    THEN CHOOSE k \in 1 .. Len(places) :
             places[k] = p /\ \A j \in (k + 1) .. Len(places) : places[j] # p
    ELSE 0

\* the label of the column at place p is carried by another column too
Duplicated(df, p) ==
    \E q \in 1 .. Len(df.columns) : q # p /\ df.columns[q] = df.columns[p]

\* step 3 of _adapt_with.  out[col] of a label that two columns carry is a
\* table: its apply hands _normalize whole columns, which it returns as they
\* are, and the assignment puts them back
ApplyNormalizers(df, m) ==
    LET places == EntryPlaces(df, m.normalizers)
        entry == [p \in 1 .. Len(df.columns) |-> LastEntryFor(places, p)]
    IN  [df EXCEPT !.data =
            [r \in 1 .. NumRows(df) |->
                [p \in 1 .. Len(df.columns) |->
                    IF entry[p] = 0 \/ Duplicated(df, p) THEN df.data[r][p]
                    ELSE normalize(df.data[r][p], m.normalizers[entry[p]].rules)]]]

\* _coerce(s, kind) of a table s, which out[col] is when two columns carry
\* the label: the exception raised, None when the table is returned as it is
coerce_table(kind) ==
    CASE kind = <<"d", "a", "t", "e">> -> Raise("ValueError")
      [] kind \in {<<"f", "l", "o", "a", "t">>, <<"i", "n", "t">>, <<"b", "o", "o", "l">>} -> Raise("AttributeError")
      [] OTHER -> None

\* step 4 of _adapt_with: the coercions in the order of the dict, the first
\* exception ending the call
ApplyCoercions(df, m) ==
    LET places == EntryPlaces(df, m.coercions)
        entry == [p \in 1 .. Len(df.columns) |-> LastEntryFor(places, p)]
        Fails(k) == /\ places[k] # 0
                    /\ Duplicated(df, places[k])
                    /\ coerce_table(m.coercions[entry[places[k]]].kind).t = "raise"
    IN  IF \E k \in 1 .. Len(places) : Fails(k)
        THEN coerce_table(m.coercions[entry[places[
                 CHOOSE k \in 1 .. Len(places) :
                     Fails(k) /\ \A j \in 1 .. (k - 1) : ~Fails(j)]]].kind)
        ELSE [df EXCEPT !.data =
            [r \in 1 .. NumRows(df) |->
                [p \in 1 .. Len(df.columns) |->
                    IF entry[p] = 0 \/ Duplicated(df, p) THEN df.data[r][p]
                    ELSE coerce(df.data[r][p], m.coercions[entry[p]].kind)]]]

\* step 5 of _adapt_with; pd.to_datetime of the table that out["Date"] is
\* when two columns carry the label raises ValueError
DerivedFromDate(df) ==
    LET p == find_col(df, <<"D", "a", "t", "e">>)
        dts == [r \in 1 .. NumRows(df) |-> ToDatetime(df.data[r][p])]
        a == SetColumn(df, <<"D", "a", "y", "N", "a", "m", "e">>, [r \in 1 .. NumRows(df) |-> DayName(dts[r])])
        b == SetColumn(a, <<"M", "o", "n", "t", "h">>, [r \in 1 .. NumRows(df) |-> MonthText(dts[r])])
    IN  IF df.t = "raise" \/ p = 0 THEN df
        ELSE IF Duplicated(df, p) THEN Raise("ValueError")
        ELSE SetColumn(b, <<"W", "e", "e", "k">>, [r \in 1 .. NumRows(df) |-> IsoWeek(dts[r])])

\* step 6 of _adapt_with
OrderCanonicalFirst(df) ==
    IF df.t = "raise" THEN df
    ELSE SelectColumns(df, CANONICAL_ORDER \o
        SelectSeq(df.columns,
                  LAMBDA c : \A k \in 1 .. Len(CANONICAL_ORDER) : CANONICAL_ORDER[k] # c))

\* _adapt_with(df, m)
adapt_with(df, m) ==
    OrderCanonicalFirst(
        DerivedFromDate(
            ApplyCoercions(
                ApplyNormalizers(EnsureCanonical(RenameColumns(df, m), 1), m), m)))

\* adapt_df applying the first profile loaded when the chooser returns none
adapt_df_first_loaded(df, maps) ==
    LET chosen == IF df.data = <<>> \/ df.columns = <<>> THEN 0
                  ELSE IF choose(df, maps, None) = 0 /\ maps # <<>> THEN 1
                  ELSE choose(df, maps, None)
    IN  IF chosen = 0 THEN [df |-> df, name |-> None]
        ELSE [df |-> adapt_with(df, maps[chosen]), name |-> Str(maps[chosen].name)]

\* adapt_df(df, mappings_dir), maps being what _load_maps read there: the
\* table and the name of the profile applied, None when none was; an exception
\* that _adapt_with raised stands in the place of the table
adapt_df(df, maps) ==
    LET chosen == IF df.data = <<>> \/ df.columns = <<>> THEN 0
                  ELSE choose(df, maps, None)
    IN  IF chosen = 0 THEN [df |-> df, name |-> None]
        ELSE [df |-> adapt_with(df, maps[chosen]), name |-> Str(maps[chosen].name)]

(***************************************************************************)
(* load_trades_from_notion: src/src/edge_analysis/data/notion_adapter.py.  *)
(* The records the database query returned, flattened by _flatten_props    *)
(* and put in a DataFrame, are the input; the parsing of the Date, Closed  *)
(* RR and PnL columns that follows is modelled.                            *)
(***************************************************************************)

DATE_FIELDS == <<<<"D", "a", "y", "/", "T", "i", "m", "e", "/", "D", "a", "t", "e", " ", "o", "f", " ", "T", "r", "a", "d", "e">>, <<"D", "a", "t", "e">>>>

RR_FIELDS == <<<<"C", "l", "o", "s", "e", "d", " ", "R", "R">>>>

PNL_FIELDS == <<<<"P", "n", "L">>>>

RECURSIVE first_nonempty_from(_, _, _, _)
\* the loop of _first_nonempty from field k on
first_nonempty_from(df, r, fields, k) ==
    IF k > Len(fields) THEN None
    ELSE LET val == RowGet(df, r, fields[k])
         IN  IF val \notin {None, Str(<<>>), Str(<<"N", "a", "N">>)} THEN val
             ELSE first_nonempty_from(df, r, fields, k + 1)

\* _first_nonempty(row, fields), row being row r of df
first_nonempty(df, r, fields) == first_nonempty_from(df, r, fields, 1)

\* (?:-|<em dash>|to) at index i, ignoring case: the index after it, or 0
NotionSeparatorEnd(s, i) ==
    IF i <= Len(s) /\ s[i] \in {"-", EmDash} THEN i + 1
    ELSE IF OccursAt(LowerText(s), <<"t", "o">>, i) THEN i + 2
    ELSE 0

\* the _RR_RANGE_RE of notion_adapter.py matched at index i
NotionRangeMatchAt(s, i) ==
    LET a == NumberEnd(s, i)
        p == IF a = 0 THEN 0 ELSE NotionSeparatorEnd(s, SkipSpaces(s, a + 1))
        q == IF p = 0 THEN 0 ELSE SkipSpaces(s, p)
        b == IF p = 0 THEN 0 ELSE NumberEnd(s, q)
    IN  IF b = 0 THEN [ok |-> FALSE]
        ELSE [ok |-> TRUE, g1 |-> SubSeq(s, i, a), g2 |-> SubSeq(s, q, b)]

RECURSIVE NotionRangeSearchFrom(_, _)
\* its leftmost match in s from index i on
NotionRangeSearchFrom(s, i) ==
    IF i > Len(s) THEN [ok |-> FALSE]
    ELSE LET m == NotionRangeMatchAt(s, i)
         IN  IF m.ok THEN m ELSE NotionRangeSearchFrom(s, i + 1)

\* its search(s)
NotionRangeSearch(s) == NotionRangeSearchFrom(s, 1)

\* the parse_closed_rr of notion_adapter.py
notion_parse_closed_rr(x) ==
    IF x.t = "none" THEN NaN
    ELSE IF x.t \in {"num", "nan"} THEN x
    ELSE IF x.t = "bool" THEN Num(IF x.b THEN 1 ELSE 0)
    ELSE LET s == Strip(StrOf(x))
             m == NotionRangeSearch(s)
         IN  IF s = <<>> THEN NaN
             ELSE IF m.ok
               THEN DecHalf(DecAdd(NumeralVal(m.g1), NumeralVal(m.g2)))
             ELSE LET v == FloatOf(RemoveChar(s, "+"))
                  IN  IF v.t = "raise" THEN NaN ELSE v

\* whether df has a column of one of the fields
HasField(df, fields) == \E k \in 1 .. Len(fields) : HasCol(df, fields[k])

\* lines 158-163; the dates carry no time of day and no zone, so that
\* utc=True and tz_localize(None) leave them as they are
NotionDate(df) ==
    IF HasField(df, DATE_FIELDS)
    THEN SetColumn(df, <<"D", "a", "t", "e">>,
             [r \in 1 .. NumRows(df) |-> ToDatetime(first_nonempty(df, r, DATE_FIELDS))])
    ELSE df

\* lines 166-170
NotionClosedRR(df) ==
    IF HasField(df, RR_FIELDS)
    THEN SetColumn(df, <<"C", "l", "o", "s", "e", "d", " ", "R", "R">>,
             [r \in 1 .. NumRows(df) |->
                 notion_parse_closed_rr(first_nonempty(df, r, RR_FIELDS))])
    ELSE df

\* lines 173-177
NotionPnL(df) ==
    IF HasField(df, PNL_FIELDS)
    THEN SetColumn(df, <<"P", "n", "L">>,
             [r \in 1 .. NumRows(df) |-> ToNumeric(first_nonempty(df, r, PNL_FIELDS))])
    ELSE df

\* load_trades_from_notion from df = pd.DataFrame(rows) on, lines 149-179
load_trades_from_notion(df) ==
    IF df.data = <<>> \/ df.columns = <<>>
    THEN Frame(<<<<"D", "a", "t", "e">>, <<"P", "a", "i", "r">>, <<"S", "e", "s", "s", "i", "o", "n">>, <<"E", "n", "t", "r", "y", " ", "M", "o", "d", "e", "l">>, <<"R", "e", "s", "u", "l", "t">>, <<"C", "l", "o", "s", "e", "d", " ", "R", "R">>,
                 <<"P", "n", "L">>>>, <<>>, <<>>)
    ELSE NotionPnL(NotionClosedRR(NotionDate(df)))

(***************************************************************************)
(* load_live_df: src/data_loading.py.  The table load_trades_from_notion   *)
(* returns and the profiles read from config/templates are inputs.         *)
(***************************************************************************)

Star == "<star>"

\* df.columns = [c.strip() for c in df.columns]
StripColumns(df) ==
    IF df.t = "raise" THEN df
    ELSE [df EXCEPT !.columns = [i \in 1 .. Len(df.columns) |-> Strip(df.columns[i])]]

\* lines 54-57
ParseNumericColumns(df) ==
    LET a == IF df.t # "raise" /\ HasCol(df, <<"C", "l", "o", "s", "e", "d", " ", "R", "R">>)
             THEN SetApplied(df, <<"C", "l", "o", "s", "e", "d", " ", "R", "R">>,
                      [r \in 1 .. NumRows(df) |->
                          parse_closed_rr(Cell(df, r, <<"C", "l", "o", "s", "e", "d", " ", "R", "R">>))])
             ELSE df
    IN  IF a.t = "raise" \/ ~HasCol(a, <<"P", "n", "L">>) THEN a
        ELSE SetColumn(a, <<"P", "n", "L">>,
                 [r \in 1 .. NumRows(a) |-> ToNumeric(Cell(a, r, <<"P", "n", "L">>))])

\* lines 60-64
DateColumns(df) ==
    IF df.t = "raise" \/ ~HasCol(df, <<"D", "a", "t", "e">>) THEN df
    ELSE LET dts == [r \in 1 .. NumRows(df) |-> ToDatetime(Cell(df, r, <<"D", "a", "t", "e">>))]
             a == SetColumn(df, <<"D", "a", "t", "e">>, dts)
             b == SetColumn(a, <<"D", "a", "y", "N", "a", "m", "e">>, [r \in 1 .. NumRows(df) |-> DayName(dts[r])])
         IN  SetColumn(b, <<"H", "o", "u", "r">>, [r \in 1 .. NumRows(df) |-> Hour(dts[r])])

\* lines 67-68
InstrumentAndSession(df) ==
    IF df.t = "raise" THEN df
    ELSE LET a == IF HasCol(df, <<"P", "a", "i", "r">>)
                  THEN SetApplied(df, <<"I", "n", "s", "t", "r", "u", "m", "e", "n", "t">>,
                           [r \in 1 .. NumRows(df) |->
                               infer_instrument(Cell(df, r, <<"P", "a", "i", "r">>))])
                  ELSE SetConstant(df, <<"I", "n", "s", "t", "r", "u", "m", "e", "n", "t">>, Str(<<"U", "n", "k", "n", "o", "w", "n">>))
         IN  IF a.t = "raise" THEN a
             ELSE SetApplied(a, <<"S", "e", "s", "s", "i", "o", "n", " ", "N", "o", "r", "m">>,
                      [r \in 1 .. NumRows(a) |->
                          normalize_session(IF HasCol(a, <<"S", "e", "s", "s", "i", "o", "n">>)
                                            THEN Cell(a, r, <<"S", "e", "s", "s", "i", "o", "n">>)
                                            ELSE NaN)])

\* lines 71-77; without the two columns df.get("Entry Model", "") is the
\* str "", which has no apply
EntryModelsList(df) ==
    IF df.t = "raise" THEN df
    ELSE IF HasCol(df, <<"M", "u", "l", "t", "i", " ", "E", "n", "t", "r", "y", " ", "M", "o", "d", "e", "l", " ", "E", "n", "t", "r", "y">>)
      THEN SetApplied(df, <<"E", "n", "t", "r", "y", " ", "M", "o", "d", "e", "l", "s", " ", "L", "i", "s", "t">>,
               [r \in 1 .. NumRows(df) |->
                   build_models_list(RowGet(df, r, <<"E", "n", "t", "r", "y", " ", "M", "o", "d", "e", "l">>),
                                     RowGet(df, r, <<"M", "u", "l", "t", "i", " ", "E", "n", "t", "r", "y", " ", "M", "o", "d", "e", "l", " ", "E", "n", "t", "r", "y">>))])
    ELSE IF HasCol(df, <<"E", "n", "t", "r", "y", " ", "M", "o", "d", "e", "l">>)
      THEN SetApplied(df, <<"E", "n", "t", "r", "y", " ", "M", "o", "d", "e", "l", "s", " ", "L", "i", "s", "t">>,
               [r \in 1 .. NumRows(df) |->
                   build_models_list(Cell(df, r, <<"E", "n", "t", "r", "y", " ", "M", "o", "d", "e", "l">>), None)])
    ELSE Raise("AttributeError")

\* lines 80-85
EntryConfluenceList(df) ==
    IF df.t = "raise" THEN df
    ELSE IF HasCol(df, <<"E", "n", "t", "r", "y", " ", "C", "o", "n", "f", "l", "u", "e", "n", "c", "e">>)
      THEN SetColumn(df, <<"E", "n", "t", "r", "y", " ", "C", "o", "n", "f", "l", "u", "e", "n", "c", "e", " ", "L", "i", "s", "t">>,
               [r \in 1 .. NumRows(df) |->
                   LET v == Cell(df, r, <<"E", "n", "t", "r", "y", " ", "C", "o", "n", "f", "l", "u", "e", "n", "c", "e">>)
                   IN  List(SplitTokens(IF IsNull(v) THEN <<>> ELSE AsStr(v)))])
    ELSE SetConstant(df, <<"E", "n", "t", "r", "y", " ", "C", "o", "n", "f", "l", "u", "e", "n", "c", "e", " ", "L", "i", "s", "t">>, List(<<>>))

\* lines 88-91
OutcomeColumn(df) ==
    IF df.t = "raise" THEN df
    ELSE SetColumn(df, <<"O", "u", "t", "c", "o", "m", "e">>,
             [r \in 1 .. NumRows(df) |->
                 Str(classify_outcome_from_fields(RowGet(df, r, <<"R", "e", "s", "u", "l", "t">>),
                                                  RowGet(df, r, <<"C", "l", "o", "s", "e", "d", " ", "R", "R">>),
                                                  RowGet(df, r, <<"P", "n", "L">>)))])

\* s.count(c)
CountChar(s, c) == Len(SelectSeq(s, LAMBDA x : x = c))

\* the first match of (\d+(?:\.\d+)?)\s*% in s, as a float; NaN without one
ExtractPercent(s) ==
    LET NumEnd(i) == NumberEnd(s, i)
        Matches(i) ==
            /\ IsDigit(s[i])
            /\ SkipSpaces(s, NumEnd(i) + 1) <= Len(s)
            /\ s[SkipSpaces(s, NumEnd(i) + 1)] = "%"
    IN  IF \E i \in 1 .. Len(s) : Matches(i)
        THEN LET i == CHOOSE k \in 1 .. Len(s) :
                          Matches(k) /\ \A j \in 1 .. (k - 1) : ~Matches(j)
             IN  NumeralVal(SubSeq(s, i, NumEnd(i)))
        ELSE NaN

\* lines 94-99
StarsAndRisk(df) ==
    IF df.t = "raise" THEN df
    ELSE LET a == IF HasCol(df, <<"R", "a", "t", "i", "n", "g">>)
                  THEN SetColumn(df, <<"S", "t", "a", "r", "s">>,
                           [r \in 1 .. NumRows(df) |->
                               LET v == Cell(df, r, <<"R", "a", "t", "i", "n", "g">>)
                               IN  IF IsStr(v) THEN Num(CountChar(v.s, Star))
                                   ELSE None])
                  ELSE df
         IN  IF HasCol(a, <<"R", "i", "s", "k", " ", "M", "a", "n", "a", "g", "e", "m", "e", "n", "t">>)
             THEN SetColumn(a, <<"R", "i", "s", "k", " ", "%">>,
                      [r \in 1 .. NumRows(a) |->
                          ExtractPercent(AsStr(Cell(a, r, <<"R", "i", "s", "k", " ", "M", "a", "n", "a", "g", "e", "m", "e", "n", "t">>)))])
             ELSE a

\* lines 102-104
DurationColumns(df) ==
    IF df.t = "raise" \/ ~HasCol(df, <<"T", "r", "a", "d", "e", " ", "D", "u", "r", "a", "t", "i", "o", "n">>) THEN df
    ELSE LET mins == [r \in 1 .. NumRows(df) |->
                         ToNumeric(Cell(df, r, <<"T", "r", "a", "d", "e", " ", "D", "u", "r", "a", "t", "i", "o", "n">>))]
         IN  SetApplied(SetColumn(df, <<"T", "r", "a", "d", "e", " ", "D", "u", "r", "a", "t", "i", "o", "n">>, mins), <<"D", "u", "r", "a", "t", "i", "o", "n", " ", "B", "i", "n">>,
                        [r \in 1 .. NumRows(df) |-> build_duration_bin(mins[r])])

\* lines 107-108
AccountGroup(df) ==
    IF df.t = "raise" \/ ~HasCol(df, <<"A", "c", "c", "o", "u", "n", "t">>) THEN df
    ELSE SetApplied(df, <<"A", "c", "c", "o", "u", "n", "t", " ", "G", "r", "o", "u", "p">>,
             [r \in 1 .. NumRows(df) |->
                 normalize_account_group(Cell(df, r, <<"A", "c", "c", "o", "u", "n", "t">>))])

\* .astype(str).str.strip().ne("") of a cell
TextNotEmpty(v) == Strip(AsStr(v)) # <<>>

\* has_date of row r, line 111
HasDate(df, r) == HasCol(df, <<"D", "a", "t", "e">>) /\ ~IsNull(Cell(df, r, <<"D", "a", "t", "e">>))

\* has_signal of row r, lines 114-129
HasSignal(df, r) ==
    \/ HasCol(df, <<"P", "n", "L">>) /\ ~IsNull(Cell(df, r, <<"P", "n", "L">>))
    \/ HasCol(df, <<"C", "l", "o", "s", "e", "d", " ", "R", "R">>) /\ ~IsNull(Cell(df, r, <<"C", "l", "o", "s", "e", "d", " ", "R", "R">>))
    \/ HasCol(df, <<"R", "e", "s", "u", "l", "t">>) /\ TextNotEmpty(Cell(df, r, <<"R", "e", "s", "u", "l", "t">>))
    \/ HasCol(df, <<"E", "n", "t", "r", "y", " ", "M", "o", "d", "e", "l">>) /\ TextNotEmpty(Cell(df, r, <<"E", "n", "t", "r", "y", " ", "M", "o", "d", "e", "l">>))

\* lines 110-131
FilterValidTrades(df) ==
    IF df.t = "raise" THEN df
    ELSE FilterRows(df, [r \in 1 .. NumRows(df) |-> HasDate(df, r) /\ HasSignal(df, r)])

\* whether a token or database id is given
Truthy(v) == v.t = "str" /\ v.s # <<>>

\* load_live_df(token, dbid), raw being what load_trades_from_notion
\* returned and maps the profiles in config/templates
load_live_df(token, dbid, raw, maps) ==
    IF ~(Truthy(token) /\ Truthy(dbid)) THEN EmptyFrame
    ELSE IF raw.data = <<>> \/ raw.columns = <<>> THEN EmptyFrame
    ELSE LET adapted == adapt_df(raw, maps)
             df == IF Truthy(adapted.name) THEN adapted.df ELSE raw
         IN  FilterValidTrades(
                 AccountGroup(
                     DurationColumns(
                         StarsAndRisk(
                             OutcomeColumn(
                                 EntryConfluenceList(
                                     EntryModelsList(
                                         InstrumentAndSession(
                                             DateColumns(
                                                 ParseNumericColumns(
                                                     StripColumns(df)))))))))))

(***************************************************************************)
(* The calls of load_live_df.                                              *)
(***************************************************************************)

\* most rows of a fetched table
MaxLoadRows == 1

DateCells == {None, Str(<<"2", "0", "2", "4", "-", "0", "1", "-", "0", "5">>), Str(<<"2", "0", "2", "4", "-", "0", "2", "-", "3", "0">>)}

PairCells == {Str(<<"X", "A", "U", "U", "S", "D">>), Str(<<"E", "U", "R", "U", "S", "D">>)}

ResultCellsRaw == {None, Str(<<>>), Str(<<"L", "o", "s", "s">>)}

ClosedRRCells == {None, Str(<<"+", "2", "-", "3">>), Str(<<"-", "1">>)}

\* the layouts of the fetched tables: the columns in order, each with its
\* label and the cells it holds
TradeLayout ==
    <<[label |-> <<"D", "a", "t", "e">>, cells |-> {Str(<<"2", "0", "2", "4", "-", "0", "1", "-", "0", "5">>), Str(<<"2", "0", "2", "4", "-", "0", "2", "-", "3", "0">>)}],
      [label |-> <<"P", "a", "i", "r">>, cells |-> {Str(<<"X", "A", "U", "U", "S", "D">>)}],
      [label |-> <<"R", "e", "s", "u", "l", "t">>, cells |-> ResultCellsRaw],
      [label |-> <<"C", "l", "o", "s", "e", "d", " ", "R", "R">>, cells |-> {None, Str(<<"+", "2", "-", "3">>)}],
      [label |-> <<"P", "n", "L">>, cells |-> {None, Num(0)}],
      [label |-> <<"E", "n", "t", "r", "y", " ", "M", "o", "d", "e", "l">>, cells |-> {Str(<<>>), Str(<<"B", "r", "e", "a", "k", "o", "u", "t">>)}]>>

ResultLayout ==
    <<[label |-> <<"D", "a", "t", "e">>, cells |-> DateCells],
      [label |-> <<"P", "a", "i", "r">>, cells |-> PairCells],
      [label |-> <<"R", "e", "s", "u", "l", "t">>, cells |-> ResultCellsRaw],
      [label |-> <<"C", "l", "o", "s", "e", "d", " ", "R", "R">>, cells |-> ClosedRRCells]>>

ModelLayout ==
    <<[label |-> <<"D", "a", "t", "e">>, cells |-> DateCells],
      [label |-> <<"P", "a", "i", "r">>, cells |-> {Str(<<"E", "U", "R", "U", "S", "D">>)}],
      [label |-> <<"C", "l", "o", "s", "e", "d", " ", "R", "R">>, cells |-> {Str(<<>>), Str(<<"2", EnDash, "3">>), Str(<<"2", EmDash, "3">>)}],
      [label |-> <<"E", "n", "t", "r", "y", " ", "M", "o", "d", "e", "l">>, cells |-> {None, Str(<<"B", "r", "e", "a", "k", "o", "u", "t">>)}]>>

\* a journal that keeps the ratio under a label of its own
RatioLayout ==
    <<[label |-> <<"D", "a", "t", "e">>, cells |-> {None, Str(<<"2", "0", "2", "4", "-", "0", "1", "-", "0", "5">>)}],
      [label |-> <<"P", "a", "i", "r">>, cells |-> {Str(<<"X", "A", "U", "U", "S", "D">>)}],
      [label |-> <<"R", "e", "s", "u", "l", "t">>, cells |-> ResultCellsRaw],
      [label |-> <<"R", "R">>, cells |-> {Str(<<"+", "2", "-", "3">>), Str(<<"-", "1">>)}]>>

JournalLayout ==
    <<[label |-> <<"D", "a", "y", "/", "T", "i", "m", "e", "/", "D", "a", "t", "e", " ", "o", "f", " ", "T", "r", "a", "d", "e">>, cells |-> {None, Str(<<"2", "0", "2", "4", "-", "0", "1", "-", "0", "5">>)}],
      [label |-> <<"P", "a", "i", "r">>, cells |-> {Str(<<"N", "A", "S", "1", "0", "0">>)}],
      [label |-> <<"S", "e", "s", "s", "i", "o", "n">>, cells |-> {Str(<<"N", "Y">>)}],
      [label |-> <<"M", "u", "l", "t", "i", " ", "E", "n", "t", "r", "y", " ", "M", "o", "d", "e", "l", " ", "E", "n", "t", "r", "y">>,
       cells |-> {Str(<<"B", "r", "e", "a", "k", "o", "u", "t", ",", " ", "i", "n", "t", "e", "r", "n", "a", "l", " ", "n", "o", " ", "c", "l", "o", "s", "e">>)}],
      [label |-> <<"E", "n", "t", "r", "y", " ", "C", "o", "n", "f", "l", "u", "e", "n", "c", "e">>, cells |-> {Str(<<"F", "V", "G", ";", " ", "O", "B">>)}],
      [label |-> <<"R", "a", "t", "i", "n", "g">>, cells |-> {None, Str(<<Star, Star, Star>>)}],
      [label |-> <<"R", "i", "s", "k", " ", "M", "a", "n", "a", "g", "e", "m", "e", "n", "t">>, cells |-> {Str(<<"r", "i", "s", "k", "e", "d", " ", "1", ".", "5", " ", "%">>)}],
      [label |-> <<"T", "r", "a", "d", "e", " ", "D", "u", "r", "a", "t", "i", "o", "n">>, cells |-> {Str(<<"4", "5">>), Str(<<"n", "/", "a">>)}],
      [label |-> <<"A", "c", "c", "o", "u", "n", "t">>, cells |-> {Str(<<"L", "i", "v", "e", " ", "o", "n", " ", "F", "u", "n", "d", "e", "d">>)}],
      [label |-> <<"C", "o", "m", "m", "e", "n", "t", "s">>, cells |-> {Str(<<"l", "a", "t", "e", " ", "e", "n", "t", "r", "y">>)}]>>

\* a journal most of whose columns no profile knows
WideLayout ==
    <<[label |-> <<"D", "a", "t", "e">>, cells |-> {Str(<<"2", "0", "2", "4", "-", "0", "1", "-", "0", "5">>)}],
      [label |-> <<"E", "n", "t", "r", "y", " ", "M", "o", "d", "e", "l", " ">>, cells |-> {Str(<<"B", "r", "e", "a", "k", "o", "u", "t">>)}],
      [label |-> <<"S", "e", "s", "s", "i", "o", "n">>, cells |-> {Str(<<"L", "o", "n", "d", "o", "n">>)}],
      [label |-> <<"A", "c", "c", "o", "u", "n", "t">>, cells |-> {Str(<<"L", "a", "t", "e", " ", "F", "T">>)}],
      [label |-> <<"Z", "o", "n", "e">>, cells |-> {Str(<<"P", "r", "e", "m", "i", "u", "m">>)}],
      [label |-> <<"S", "e", "t", "u", "p">>, cells |-> {None}],
      [label |-> <<"B", "i", "a", "s">>, cells |-> {Str(<<"L", "o", "n", "g">>)}],
      [label |-> <<"C", "h", "a", "r", "t">>, cells |-> {Str(<<>>)}],
      [label |-> <<"M", "o", "o", "d">>, cells |-> {Str(<<"c", "a", "l", "m">>)}]>>

Layouts == {TradeLayout, ResultLayout, ModelLayout, RatioLayout, JournalLayout, WideLayout}

Labels(layout) == [i \in 1 .. Len(layout) |-> layout[i].label]

RECURSIVE RowsOf(_)
\* the rows of a table of a layout
RowsOf(layout) ==
    IF layout = <<>> THEN {<<>>}
    ELSE {<<c>> \o r : c \in Head(layout).cells, r \in RowsOf(Tail(layout))}

\* pd.DataFrame(rows) of the records fetched: rows labelled 0, 1, ...
FetchedTables ==
    UNION {{Frame(Labels(layout), [i \in 1 .. Len(data) |-> i - 1], data) :
               data \in SeqsUpTo(RowsOf(layout), MaxLoadRows) \ {<<>>}} :
           layout \in Layouts}
        \cup {EmptyFrame}

\* a profile that keeps the journal's own labels
PlainProfile ==
    [name |-> <<"M", "i", "n", "e">>,
     columns |-> <<[src |-> <<"d", "a", "t", "e">>, dst |-> <<"D", "a", "t", "e">>],
                   [src |-> <<"P", "a", "i", "r">>, dst |-> <<"P", "a", "i", "r">>],
                   [src |-> <<"R", "e", "s", "u", "l", "t">>, dst |-> <<"R", "e", "s", "u", "l", "t">>],
                   [src |-> <<"C", "l", "o", "s", "e", "d", " ", "R", "R">>, dst |-> <<"C", "l", "o", "s", "e", "d", " ", "R", "R">>],
                   [src |-> <<"P", "n", "L">>, dst |-> <<"P", "n", "L">>],
                   [src |-> <<"E", "n", "t", "r", "y", " ", "M", "o", "d", "e", "l">>, dst |-> <<"E", "n", "t", "r", "y", " ", "M", "o", "d", "e", "l">>],
                   [src |-> <<"c", "o", "m", "m", "e", "n", "t", "s">>, dst |-> <<"N", "o", "t", "e", "s">>]>>,
     normalizers |-> <<>>,
     coercions |-> <<>>]

\* a profile that names the ratio column and declares the types of the
\* numeric columns
NumericProfile ==
    [name |-> <<"T", "r", "a", "d", "i", "n", "g", "P", "o", "o", "l", "s">>,
     columns |-> <<[src |-> <<"D", "a", "t", "e">>, dst |-> <<"D", "a", "t", "e">>],
                   [src |-> <<"P", "a", "i", "r">>, dst |-> <<"P", "a", "i", "r">>],
                   [src |-> <<"R", "e", "s", "u", "l", "t">>, dst |-> <<"R", "e", "s", "u", "l", "t">>],
                   [src |-> <<"R", "R">>, dst |-> <<"C", "l", "o", "s", "e", "d", " ", "R", "R">>]>>,
     normalizers |-> <<[key |-> <<"P", "a", "i", "r">>,
                        rules |-> <<[target |-> <<"X", "A", "U", "U", "S", "D">>,
                                     variants |-> <<<<"g", "o", "l", "d">>, <<"x", "a", "u">>>>]>>]>>,
     coercions |-> <<[key |-> <<"c", "l", "o", "s", "e", "d", " ", "r", "r">>, kind |-> <<"f", "l", "o", "a", "t">>],
                     [key |-> <<"P", "n", "L">>, kind |-> <<"f", "l", "o", "a", "t">>],
                     [key |-> <<"D", "a", "t", "e">>, kind |-> <<"d", "a", "t", "e">>]>>]

\* what _load_maps found in config/templates
MapLists ==
    {<<>>, <<PlainProfile>>, <<NumericProfile>>, <<PlainProfile, NumericProfile>>}

LoadArgs ==
    [kind : {"load"}, token : {Str(<<"s", "e", "c", "r", "e", "t">>)}, dbid : {Str(<<"d", "b">>)},
     rows : FetchedTables, maps : MapLists]
        \cup [kind : {"load"}, token : {None, Str(<<>>)}, dbid : {Str(<<"d", "b">>)},
              rows : {EmptyFrame}, maps : {<<>>}]

InitLoad ==
    /\ pc = "start"
    /\ call = ""
    /\ args \in LoadArgs
    /\ result = NoResult

\* line 40: load_trades_from_notion(token, dbid) returned, reached only with
\* a token and a database id
LoadTradesFromNotion ==
    /\ args.kind = "load"
    /\ pc = "start"
    /\ Truthy(args.token) /\ Truthy(args.dbid)
    /\ result' = load_trades_from_notion(args.rows)
    /\ call' = "load_trades_from_notion"
    /\ pc' = "fetched"
    /\ UNCHANGED args

\* load_live_df(token, dbid) returned: at once without a token or a
\* database id, from the table fetched otherwise
LoadLiveDf ==
    /\ args.kind = "load"
    /\ pc = (IF Truthy(args.token) /\ Truthy(args.dbid) THEN "fetched" ELSE "start")
    /\ result' = load_live_df(args.token, args.dbid, result, args.maps)
    /\ call' = "load_live_df"
    /\ pc' = "done"
    /\ UNCHANGED args

NextLoad == LoadTradesFromNotion \/ LoadLiveDf

SpecLoad == InitLoad /\ [][NextLoad]_vars

\* the place in the fetched table of the k-th row of the result
RawRow(k) == result.index[k] + 1

NonEmptyText(v) == IsStr(v) /\ Strip(v.s) # <<>>

\* the label of the fetched column that holds the Closed RR: that label, or
\* RR when the table has no such column and the profile applied renamed RR
ClosedRRLabel ==
    IF HasCol(args.rows, <<"C", "l", "o", "s", "e", "d", " ", "R", "R">>) \/ HasCol(result, <<"R", "R">>) THEN <<"C", "l", "o", "s", "e", "d", " ", "R", "R">>
    ELSE <<"R", "R">>

\* the row of the fetched table has a date and a signal, a null or missing
\* cell being no text
ClaimedValid(rows, r) ==
    /\ ToDatetime(first_nonempty(rows, r, DATE_FIELDS)).t = "ts"
    /\ \/ IsNum(ToNumeric(RowGet(rows, r, <<"P", "n", "L">>)))
       \/ IsNum(parse_closed_rr(RowGet(rows, r, ClosedRRLabel)))
       \/ NonEmptyText(RowGet(rows, r, <<"R", "e", "s", "u", "l", "t">>))
       \/ NonEmptyText(RowGet(rows, r, <<"E", "n", "t", "r", "y", " ", "M", "o", "d", "e", "l">>))

\* C2: the table load_live_df returns holds exactly the fetched rows that
\* have a date that parsed and at least one signal: a numeric PnL, a Closed RR
\* that parsed to a number, a Result text or an Entry Model text that is not
\* empty, a null or missing Result or Entry Model cell counting as empty.
C2_ExactlyValidRows ==
    (Returned("load_live_df") /\ Truthy(args.token) /\ result.t = "frame") =>
        result.index =
            SelectSeq(args.rows.index, LAMBDA i : ClaimedValid(args.rows, i + 1))

\* null cells are equal, other cells when they are the same value
SameCell(a, b) == (IsNull(a) /\ IsNull(b)) \/ a = b

\* C8: whatever profile was applied, every row load_live_df retains has as
\* Instrument infer_instrument of the fetched Pair, as Closed RR
\* parse_closed_rr of the fetched Closed RR cell, and as Outcome
\* classify_outcome_from_fields of the fetched Result, that parsed Closed RR
\* and the numeric PnL.
C8_ColumnsFromRawCells ==
    (Returned("load_live_df") /\ result.t = "frame") =>
        \A k \in 1 .. NumRows(result) :
            LET rr == parse_closed_rr(RowGet(args.rows, RawRow(k), ClosedRRLabel))
            IN  /\ SameCell(RowGet(result, k, <<"I", "n", "s", "t", "r", "u", "m", "e", "n", "t">>),
                            infer_instrument(RowGet(args.rows, RawRow(k), <<"P", "a", "i", "r">>)))
                /\ SameCell(RowGet(result, k, <<"C", "l", "o", "s", "e", "d", " ", "R", "R">>), rr)
                /\ RowGet(result, k, <<"O", "u", "t", "c", "o", "m", "e">>) =
                       Str(classify_outcome_from_fields(
                               RowGet(args.rows, RawRow(k), <<"R", "e", "s", "u", "l", "t">>), rr,
                               ToNumeric(RowGet(args.rows, RawRow(k), <<"P", "n", "L">>))))

(***************************************************************************)
(* The calls of the template adapter.                                      *)
(***************************************************************************)

\* most rows of a table handed to the adapter
MaxAdaptRows == 1

\* column labels of the tables and source labels of the profiles
AdapterLabels == {<<"D", "a", "t", "e">>, <<" ", "d", "a", "t", "e", " ">>, <<"S", "y", "m", "b", "o", "l">>, <<"T", "i", "c", "k", "e", "r">>, <<"P", "a", "i", "r">>, <<"N", "o", "t", "e", "s">>}

HeaderLists == SeqsUpTo(AdapterLabels, 2)

\* two source columns renamed to one canonical label
SymbolProfile ==
    [name |-> <<"S", "y", "m", "b", "o", "l", "s">>,
     columns |-> <<[src |-> <<"S", "y", "m", "b", "o", "l">>, dst |-> <<"P", "a", "i", "r">>],
                   [src |-> <<"t", "i", "c", "k", "e", "r">>, dst |-> <<"P", "a", "i", "r">>]>>,
     normalizers |-> <<>>,
     coercions |-> <<>>]

\* the same, with a declared type for the column
FlagProfile ==
    [name |-> <<"F", "l", "a", "g", "s">>,
     columns |-> <<[src |-> <<"S", "y", "m", "b", "o", "l">>, dst |-> <<"P", "a", "i", "r">>],
                   [src |-> <<"T", "i", "c", "k", "e", "r">>, dst |-> <<"P", "a", "i", "r">>]>>,
     normalizers |-> <<>>,
     coercions |-> <<[key |-> <<"p", "a", "i", "r">>, kind |-> <<"b", "o", "o", "l">>]>>]

\* a second column renamed to Date
DayProfile ==
    [name |-> <<"D", "a", "y", "s">>,
     columns |-> <<[src |-> <<"D", "a", "y">>, dst |-> <<"D", "a", "t", "e">>],
                   [src |-> <<"S", "y", "m", "b", "o", "l">>, dst |-> <<"P", "a", "i", "r">>]>>,
     normalizers |-> <<[key |-> <<"P", "a", "i", "r">>,
                        rules |-> <<[target |-> <<"X", "A", "U", "U", "S", "D">>,
                                     variants |-> <<<<"g", "o", "l", "d">>, <<"x", "a", "u">>>>]>>]>>,
     coercions |-> <<>>]

\* a profile that declares no source column
EmptyProfile ==
    [name |-> <<"E", "m", "p", "t", "y">>, columns |-> <<>>, normalizers |-> <<>>, coercions |-> <<>>]

AdapterProfiles ==
    {PlainProfile, NumericProfile, SymbolProfile, FlagProfile, DayProfile, EmptyProfile}

AdapterMapLists == SeqsUpTo(AdapterProfiles, 2)

SymbolLayout ==
    <<[label |-> <<"S", "y", "m", "b", "o", "l">>, cells |-> {Str(<<"g", "o", "l", "d">>)}],
      [label |-> <<"T", "i", "c", "k", "e", "r">>, cells |-> {Str(<<"X", "A", "U">>)}]>>

PairLayout ==
    <<[label |-> <<"P", "a", "i", "r">>, cells |-> {Str(<<"E", "U", "R", "U", "S", "D">>)}],
      [label |-> <<"S", "y", "m", "b", "o", "l">>, cells |-> {Str(<<"g", "o", "l", "d">>)}],
      [label |-> <<"E", "x", "t", "r", "a">>, cells |-> {Num(1)}]>>

DayLayout ==
    <<[label |-> <<"D", "a", "y">>, cells |-> {Str(<<"2", "0", "2", "4", "-", "0", "1", "-", "0", "6">>)}],
      [label |-> <<"D", "a", "t", "e">>, cells |-> {Str(<<"2", "0", "2", "4", "-", "0", "1", "-", "0", "5">>)}],
      [label |-> <<"S", "y", "m", "b", "o", "l">>, cells |-> {Str(<<"x", "a", "u">>)}]>>

DatedLayout ==
    <<[label |-> <<" ", "d", "a", "t", "e", " ">>, cells |-> {Str(<<"2", "0", "2", "4", "-", "0", "2", "-", "3", "0">>)}],
      [label |-> <<"P", "a", "i", "r">>, cells |-> {Str(<<"g", "o", "l", "d">>)}],
      [label |-> <<"R", "e", "s", "u", "l", "t">>, cells |-> {Str(<<"L", "o", "s", "s">>)}],
      [label |-> <<"R", "R">>, cells |-> {Str(<<"-", "1">>)}]>>

NotesLayout ==
    <<[label |-> <<"N", "o", "t", "e", "s">>, cells |-> {Str(<<"l", "a", "t", "e", " ", "e", "n", "t", "r", "y">>)}],
      [label |-> <<"Z", "o", "n", "e">>, cells |-> {None}]>>

AdapterLayouts == {SymbolLayout, PairLayout, DayLayout, DatedLayout, NotesLayout}

\* the tables handed to the adapter, the table without rows and the table
\* without columns among them
AdapterTables ==
    UNION {{Frame(Labels(layout), [i \in 1 .. Len(data) |-> i - 1], data) :
               data \in SeqsUpTo(RowsOf(layout), MaxAdaptRows)} :
           layout \in AdapterLayouts}
        \cup {EmptyFrame}

ForceNames == {None, Str(<<>>), Str(<<"F", "l", "a", "g", "s">>), Str(<<"E", "m", "p", "t", "y">>), Str(<<"A", "b", "s", "e", "n", "t">>)}

ScoreArgs == [kind : {"score"}, headers : HeaderLists, m : AdapterProfiles]

ChooseArgs ==
    [kind : {"choose"}, df : AdapterTables, maps : AdapterMapLists, force_name : ForceNames]

AdaptWithArgs == [kind : {"adapt_with"}, df : AdapterTables, m : AdapterProfiles]

AdaptDfArgs == [kind : {"adapt_df"}, df : AdapterTables, maps : AdapterMapLists]

(***************************************************************************)
(* _load_maps: src/src/edge_analysis/data/template_adapter.py.  A file of  *)
(* the directory is its name and what opening and reading it gives: it can *)
(* be opened or not, its bytes are UTF-8 or not, they start with a         *)
(* byte-order mark or not, and the text after the mark is a JSON object, a *)
(* JSON value of another type, or no JSON.                                 *)
(***************************************************************************)

Malformed == [t |-> "malformed"]

JsonDict(body) == [t |-> "dict", body |-> body]

JsonArray == [t |-> "list", l |-> <<>>]

EndsWith(s, p) == Len(s) >= Len(p) /\ OccursAt(s, p, Len(s) - Len(p) + 1)

\* p.stem: the name without its last suffix
Stem(name) ==
    LET dots == {i \in 2 .. Len(name) : name[i] = "."}
    IN  IF dots = {} THEN name
        ELSE SubSeq(name, 1, (CHOOSE i \in dots : \A j \in dots : j <= i) - 1)

\* with open(p, "r", encoding=codec) as f: json.load(f): the value read or
\* the exception raised
open_and_load(file, codec) ==
    IF ~file.readable THEN Raise("PermissionError")
    ELSE IF ~file.utf8 THEN Raise("UnicodeDecodeError")
    ELSE IF file.bom /\ codec = "utf-8" THEN Raise("JSONDecodeError")
    ELSE IF file.json = Malformed THEN Raise("JSONDecodeError")
    ELSE file.json

\* lines 94-107 without the second attempt
read_map_utf8_only(file) ==
    LET first == open_and_load(file, "utf-8")
    IN  IF first.t # "raise" THEN first ELSE None

\* lines 94-107: m after the two attempts
read_map(file) ==
    LET first == open_and_load(file, "utf-8")
        second == open_and_load(file, "utf-8-sig")
    IN  IF first.t # "raise" THEN first
        ELSE IF first.exc # "JSONDecodeError" THEN None
        ELSE IF second.t = "raise" THEN None
        ELSE second

\* _load_maps(dir_path), dir being the files of the directory
load_maps(dir) ==
    LET names == SortTexts({f.name : f \in {g \in dir : EndsWith(g.name, <<".", "j", "s", "o", "n">>)}})
        m == [k \in 1 .. Len(names) |-> read_map(CHOOSE f \in dir : f.name = names[k])]
        kept == SelectSeq([k \in 1 .. Len(names) |-> k], LAMBDA k : m[k].t = "dict")
    IN  [i \in 1 .. Len(kept) |->
            [m[kept[i]].body EXCEPT !.name = Stem(names[kept[i]])]]

(***************************************************************************)
(* The directories _load_maps reads.                                       *)
(***************************************************************************)

\* most files of a directory
MaxFiles == 2

FileNames == {<<"M", "i", "n", "e", ".", "j", "s", "o", "n">>, <<"F", "l", "a", "g", "s", ".", "j", "s", "o", "n">>, <<"a", ".", "b", ".", "j", "s", "o", "n">>, <<"a", ".", "j", "s", "o", "n">>, <<"n", "o", "t", "e", "s", ".", "t", "x", "t">>}

FileContents ==
    [readable : {TRUE}, utf8 : {TRUE}, bom : BOOLEAN,
     json : {JsonDict(PlainProfile), JsonDict(EmptyProfile), JsonArray, Malformed}]
        \cup [readable : {TRUE}, utf8 : {FALSE}, bom : {FALSE}, json : {Malformed}]
        \cup [readable : {FALSE}, utf8 : {TRUE}, bom : {FALSE}, json : {JsonDict(PlainProfile)}]

FileOf(name, c) ==
    [name |-> name, readable |-> c.readable, utf8 |-> c.utf8, bom |-> c.bom, json |-> c.json]

\* the directories of at most MaxFiles files, no two of one name
Directories ==
    UNION {{{FileOf(n, c[n]) : n \in names} : c \in [names -> FileContents]} :
              names \in {ns \in SUBSET FileNames : Cardinality(ns) <= MaxFiles}}

LoadMapsArgs == [kind : {"load_maps"}, dir : Directories]

InitAdapter ==
    /\ pc = "start"
    /\ call = ""
    /\ args \in ScoreArgs \cup ChooseArgs \cup AdaptWithArgs \cup AdaptDfArgs \cup LoadMapsArgs
    /\ result = NoResult

\* _score(headers, m) returned
Score ==
    args.kind = "score" /\ Returns("score", score(args.headers, args.m))

\* _choose(df, maps, force_name=force_name) returned
Choose ==
    /\ args.kind = "choose"
    /\ Returns("choose", [t |-> "place", i |-> choose(args.df, args.maps, args.force_name)])

\* _adapt_with(df, m) returned or raised
AdaptWith ==
    args.kind = "adapt_with" /\ Returns("adapt_with", adapt_with(args.df, args.m))

\* adapt_df(df) returned or raised, maps being what _load_maps read
AdaptDf ==
    args.kind = "adapt_df" /\ Returns("adapt_df", adapt_df(args.df, args.maps))

\* _load_maps(dir_path) returned
LoadMaps ==
    args.kind = "load_maps" /\ Returns("load_maps", load_maps(args.dir))

NextAdapter == Score \/ Choose \/ AdaptWith \/ AdaptDf \/ LoadMaps

SpecAdapter == InitAdapter /\ [][NextAdapter]_vars

(***************************************************************************)
(* Claims about the template adapter.                                      *)
(***************************************************************************)

\* the trimmed, lower-cased labels of a list
Lowered(labels) == {LowerText(Strip(labels[i])) : i \in 1 .. Len(labels)}

\* H of the call: the headers of the table
HeaderSet == Lowered(args.headers)

\* S of the call: the source columns the profile declares
SourceSet == Lowered([i \in 1 .. Len(args.m.columns) |-> args.m.columns[i].src])

\* C11 as stated: the score is |H n S| / |H u S|, lies in [0,1], is 1.0
\* whenever H = S, and is 0.0 when H and S are disjoint or S is empty.
C11_Claimed_OneWheneverEqual ==
    Returned("score") =>
        /\ (HeaderSet \cup SourceSet # {}) =>
               result.n * Cardinality(HeaderSet \cup SourceSet) =
                   Cardinality(HeaderSet \cap SourceSet) * result.d
        /\ 0 <= result.n /\ result.n <= result.d /\ result.d > 0
        /\ (HeaderSet = SourceSet) => result.n = result.d
        /\ (HeaderSet \cap SourceSet = {} \/ SourceSet = {}) => result.n = 0

\* C11: _score(headers, profile) is the Jaccard similarity |H n S| / |H u S|
\* of the trimmed, lower-cased headers H and source columns S; it lies in
\* [0,1], is 1.0 when H = S and S is not empty, and is 0.0 when H and S are
\* disjoint or S is empty (also when H is empty too).
C11_JaccardOfLoweredLabels ==
    Returned("score") =>
        /\ (HeaderSet \cup SourceSet # {}) =>
               result.n * Cardinality(HeaderSet \cup SourceSet) =
                   Cardinality(HeaderSet \cap SourceSet) * result.d
        /\ 0 <= result.n /\ result.n <= result.d /\ result.d > 0
        /\ (HeaderSet = SourceSet /\ SourceSet # {}) => result.n = result.d
        /\ (HeaderSet \cap SourceSet = {} \/ SourceSet = {}) => result.n = 0

\* a table whose headers are the profile's source columns up to case and
\* blanks, and not letter for letter, scored 1.0
C11_Witness ==
    /\ Returned("score")
    /\ HeaderSet = SourceSet
    /\ SourceSet # {}
    /\ \E i \in 1 .. Len(args.headers) :
           \A k \in 1 .. Len(args.m.columns) : args.m.columns[k].src # args.headers[i]
    /\ result.n = result.d

\* the source columns a profile declares, trimmed and lower-cased
SourcesOf(m) == Lowered([i \in 1 .. Len(m.columns) |-> m.columns[i].src])

\* the Jaccard similarity of headers and a profile's source columns, as a
\* fraction, 0 when both are empty
JaccardOf(headers, m) ==
    LET H == Lowered(headers)
        S == SourcesOf(m)
    IN  IF H \cup S = {} THEN [n |-> 0, d |-> 1]
        ELSE [n |-> Cardinality(H \cap S), d |-> Cardinality(H \cup S)]

\* that of the table and the i-th profile of the call
Jaccard(i) == JaccardOf(args.df.columns, args.maps[i])

\* force_name is given and a loaded profile carries it
Forced ==
    /\ IsStr(args.force_name) /\ args.force_name.s # <<>>
    /\ \E i \in 1 .. Len(args.maps) : args.maps[i].name = args.force_name.s

\* C12: _choose returns the profile named force_name whenever force_name is
\* given and a loaded profile carries it, whatever its score; otherwise it
\* returns a profile whose score is maximal among the loaded profiles if that
\* score is at least min_score (0.15), and null otherwise; a profile whose
\* source columns are disjoint from the headers is never chosen on its score.
C12_ForcedElseBestAboveMinScore ==
    Returned("choose") =>
        /\ Forced => /\ result.i # 0
                     /\ args.maps[result.i].name = args.force_name.s
        /\ (~Forced /\ result.i # 0) =>
               /\ \A j \in 1 .. Len(args.maps) : ~ScoreLess(Jaccard(result.i), Jaccard(j))
               /\ Jaccard(result.i).n * 100 >= MinScoreHundredths * Jaccard(result.i).d
               /\ Lowered(args.df.columns) \cap SourcesOf(args.maps[result.i]) # {}
        /\ (~Forced /\ result.i = 0) =>
               \A j \in 1 .. Len(args.maps) :
                   Jaccard(j).n * 100 < MinScoreHundredths * Jaccard(j).d

\* a forced profile that shares no column with the table was returned
\* although another loaded profile scores above min_score
C12_Witness ==
    /\ Returned("choose")
    /\ Forced
    /\ result.i # 0
    /\ Jaccard(result.i).n = 0
    /\ \E j \in 1 .. Len(args.maps) :
           Jaccard(j).n * 100 >= MinScoreHundredths * Jaccard(j).d

(***************************************************************************)
(* The pass-through of load_live_df when no profile is chosen.             *)
(***************************************************************************)

\* the table load_trades_from_notion handed to load_live_df
FetchedFrame == load_trades_from_notion(args.rows)

\* no profile is loaded, the table is empty, or every profile scores below
\* min_score
NoProfileChosen(df, maps) ==
    \/ maps = <<>>
    \/ df.data = <<>> \/ df.columns = <<>>
    \/ \A i \in 1 .. Len(maps) :
           JaccardOf(df.columns, maps[i]).n * 100
               < MinScoreHundredths * JaccardOf(df.columns, maps[i]).d

\* the columns load_live_df parses in place
ParsedInPlace == {<<"C", "l", "o", "s", "e", "d", " ", "R", "R">>, <<"P", "n", "L">>, <<"D", "a", "t", "e">>, <<"T", "r", "a", "d", "e", " ", "D", "u", "r", "a", "t", "i", "o", "n">>}

\* C13: when no profile is chosen (none loaded, every score below min_score,
\* or an empty table), adapt_df returns the table it was given, unmodified,
\* with a null profile name, and load_live_df goes on with the fetched
\* table's own columns: they come first in its result, under their own
\* (trimmed) labels, and every row kept has its fetched cells in the columns
\* that are not parsed in place.
C13_PassThroughWhenNoProfile ==
    (Returned("load_live_df") /\ Truthy(args.token)
        /\ NoProfileChosen(FetchedFrame, args.maps)) =>
        /\ adapt_df(FetchedFrame, args.maps) = [df |-> FetchedFrame, name |-> None]
        /\ (result.t = "frame" /\ FetchedFrame.data # <<>>) =>
               /\ Len(result.columns) >= Len(FetchedFrame.columns)
               /\ \A c \in 1 .. Len(FetchedFrame.columns) :
                      /\ result.columns[c] = Strip(FetchedFrame.columns[c])
                      /\ result.columns[c] \notin ParsedInPlace =>
                             \A k \in 1 .. NumRows(result) :
                                 result.data[k][c] = FetchedFrame.data[RawRow(k)][c]

\* profiles were loaded, none scored min_score on the fetched table, and
\* load_live_df returned a row of it
C13_Witness ==
    /\ Returned("load_live_df")
    /\ Truthy(args.token)
    /\ args.maps # <<>>
    /\ FetchedFrame.data # <<>>
    /\ NoProfileChosen(FetchedFrame, args.maps)
    /\ result.t = "frame"
    /\ NumRows(result) > 0
    /\ \E c \in 1 .. Len(FetchedFrame.columns) :
           result.columns[c] # FetchedFrame.columns[c]

\* the number of columns of df labelled c
Occurrences(df, c) == Cardinality({i \in 1 .. Len(df.columns) : df.columns[i] = c})

IsCanonical(c) == \E k \in 1 .. Len(CANONICAL_ORDER) : CANONICAL_ORDER[k] = c

\* C14: for every table and every profile _adapt_with returns a table that
\* holds every column of CANONICAL_ORDER exactly once, these columns first and
\* in canonical order, and only other columns after them; also when two
\* source columns are renamed to one canonical name, or when the table has a
\* column of the canonical name a source column is renamed to.
C14_CanonicalColumnsOnce ==
    Returned("adapt_with") =>
        /\ result.t = "frame"
        /\ \A k \in 1 .. Len(CANONICAL_ORDER) :
               /\ Occurrences(result, CANONICAL_ORDER[k]) = 1
               /\ result.columns[k] = CANONICAL_ORDER[k]
        /\ \A i \in (Len(CANONICAL_ORDER) + 1) .. Len(result.columns) :
               ~IsCanonical(result.columns[i])

\* the file is a *.json file whose content parses, as UTF-8 with or without
\* a byte-order mark, to a JSON object
Loadable(f) ==
    /\ EndsWith(f.name, <<".", "j", "s", "o", "n">>)
    /\ f.readable /\ f.utf8
    /\ f.json.t = "dict"

\* C15: _load_maps returns one profile for every *.json file of the
\* directory whose content parses (as UTF-8, with or without a byte-order
\* mark) to a JSON object, named by the file's stem, in the order of the file
\* names; a file that is unreadable, malformed or no JSON object is skipped
\* and keeps no other file from being loaded.
C15_OneProfilePerLoadableFile ==
    Returned("load_maps") =>
        LET good == {f \in args.dir : Loadable(f)}
        IN  /\ Len(result) = Cardinality(good)
            /\ \A f \in good :
                   \E i \in 1 .. Len(result) :
                       result[i] = [f.json.body EXCEPT !.name = Stem(f.name)]
            /\ \A i \in 1 .. Len(result) :
                   \E f \in good : f.name = result[i].name \o <<".", "j", "s", "o", "n">>
            /\ \A i, j \in 1 .. Len(result) :
                   i < j => TextLess(result[i].name \o <<".", "j", "s", "o", "n">>,
                                     result[j].name \o <<".", "j", "s", "o", "n">>)

\* a file with a byte-order mark was loaded from a directory that holds a
\* file that had to be skipped
C15_Witness ==
    /\ Returned("load_maps")
    /\ \E f \in args.dir : Loadable(f) /\ f.bom
    /\ \E f \in args.dir : EndsWith(f.name, <<".", "j", "s", "o", "n">>) /\ ~Loadable(f)
    /\ Len(result) = 1

(***************************************************************************)
(* The completion logic: src/src/edge_analysis/core/parsing.py.            *)
(***************************************************************************)

\* no outcome: the None that canonical_outcome_from_result returns
NoOutcome == "none"

\* _split_tokens_commas_semicolons(x): a list of texts, or the exception of
\* `if pd.isna(x)`
split_tokens_commas_semicolons(x) ==
    IF IsNaRaises(x) THEN Raise("ValueError")
    ELSE IF IsNaTruth(x) THEN List(<<>>)
    ELSE List(SplitTokens(Strip(StrOf(x))))

\* the reduction of the mapped labels, lines 156-159
ReduceLabels(mapped) ==
    IF \E i \in 1 .. Len(mapped) : mapped[i] = "WIN" THEN "Win"
    ELSE IF \E i \in 1 .. Len(mapped) : mapped[i] = "BE" THEN "BE"
    ELSE IF \E i \in 1 .. Len(mapped) : mapped[i] = "LOSS" THEN "Loss"
    ELSE NoOutcome

\* lines 153-159 reading the first token only
OutcomeOfFirstToken(toks) ==
    IF toks.t = "raise" THEN toks
    ELSE IF toks.l = <<>> THEN [t |-> "outcome", v |-> NoOutcome]
    ELSE [t |-> "outcome",
          v |-> ReduceLabels(<<normalize_result_label(Str(toks.l[1]))>>)]

\* lines 153-159: the outcome of the tokens
OutcomeOfTokens(toks) ==
    IF toks.t = "raise" THEN toks
    ELSE IF toks.l = <<>> THEN [t |-> "outcome", v |-> NoOutcome]
    ELSE [t |-> "outcome",
          v |-> ReduceLabels([i \in 1 .. Len(toks.l) |->
                                 normalize_result_label(Str(toks.l[i]))])]

\* canonical_outcome_from_result reading the first token only
canonical_outcome_of_first_token(result_raw) ==
    OutcomeOfFirstToken(split_tokens_commas_semicolons(result_raw))

\* canonical_outcome_from_result(result_raw): Win, BE, Loss or none, or the
\* exception raised
canonical_outcome_from_result(result_raw) ==
    OutcomeOfTokens(split_tokens_commas_semicolons(result_raw))

\* a when it is a number, b otherwise
OrElse(a, b) == IF ~IsNa(a) THEN a ELSE b

RECURSIVE LastNumberFrom(_, _, _)
\* re.findall(r"[+-]?\d+(?:\.\d+)?", s)[-1] from index i on, last being the
\* last match before i; <<>> when there is no match
LastNumberFrom(s, i, last) ==
    IF i > Len(s) THEN last
    ELSE LET e == NumberEnd(s, i)
         IN  IF e # 0 THEN LastNumberFrom(s, e + 1, SubSeq(s, i, e))
             ELSE LastNumberFrom(s, i + 1, last)

\* lines 185-191: float(m[-1]) of the last number in s, NaN without one
LastNumberValue(m) == IF m # <<>> THEN NumeralVal(m) ELSE NaN

RECURSIVE LastParsable(_, _)
\* lines 180-183: the value of the last of the first k parts that
\* parse_closed_rr reads, NaN when there is none
LastParsable(parts, k) ==
    IF k = 0 THEN NaN
    ELSE OrElse(parse_closed_rr_text(parts[k]), LastParsable(parts, k - 1))

\* lines 171-191 for the text s
coerce_closed_rr_text(s) ==
    IF s = <<>> THEN NaN
    ELSE OrElse(parse_closed_rr_text(s),
                OrElse(LastParsable(SplitTokens(s), Len(SplitTokens(s))),
                       LastNumberValue(LastNumberFrom(s, 1, <<>>))))

\* coerce_closed_rr_any(raw)
coerce_closed_rr_any(raw) ==
    IF IsNa(raw) THEN NaN ELSE coerce_closed_rr_text(Strip(StrOf(raw)))

Completion(is_complete, reason, outcome_canonical, closed_rr_num) ==
    [t |-> "completion", is_complete |-> is_complete, reason |-> reason,
     outcome_canonical |-> outcome_canonical, closed_rr_num |-> closed_rr_num]

\* lines 206-214: the outcome after the fallback to oc
FallBackTo(canonical, oc) ==
    IF canonical = NoOutcome /\ oc \in {"Win", "BE", "Loss"} THEN oc
    ELSE canonical

\* lines 216-229
CompletionOf(outcome_canonical, closed_rr_num, strict) ==
    LET has_outcome == outcome_canonical \in {"Win", "BE", "Loss"}
        has_rr == ~IsNa(closed_rr_num)
        missing == (IF has_outcome THEN <<>> ELSE <<<<"O", "u", "t", "c", "o", "m", "e">>>>)
                       \o (IF has_rr THEN <<>> ELSE <<<<"C", "l", "o", "s", "e", "d", " ", "R", "R">>>>)
    IN  IF strict
        THEN IF has_outcome /\ has_rr
             THEN Completion(TRUE, <<>>, outcome_canonical, closed_rr_num)
             ELSE Completion(FALSE,
                             <<"M", "i", "s", "s", "i", "n", "g", ":", " ">> \o
                                 (IF Len(missing) = 2
                                  THEN missing[1] \o <<",", " ">> \o missing[2]
                                  ELSE missing[1]),
                             outcome_canonical, closed_rr_num)
        ELSE IF has_outcome \/ has_rr
             THEN Completion(TRUE, <<>>, outcome_canonical, closed_rr_num)
             ELSE Completion(FALSE, <<"M", "i", "s", "s", "i", "n", "g", ":", " ", "O", "u", "t", "c", "o", "m", "e", " ", "o", "r", " ", "C", "l", "o", "s", "e", "d", " ", "R", "R">>,
                             outcome_canonical, closed_rr_num)

\* lines 203-229, canonical and closed_rr_num being what lines 203-204 gave
CompletionFrom(canonical, closed_rr_num, row, strict) ==
    IF canonical.t = "raise" THEN canonical
    ELSE CompletionOf(
             FallBackTo(canonical.v,
                        classify_outcome_from_fields(row.Result, closed_rr_num, row.PnL)),
             closed_rr_num, strict)

\* classify_completion_row that never requires the Closed RR
classify_completion_row_lenient(row, strict) ==
    CompletionFrom(canonical_outcome_from_result(row.Result),
                   coerce_closed_rr_any(row.ClosedRR), row, FALSE)

\* classify_completion_row(row, strict): the tuple returned, or the
\* exception raised; row holds the cells row.get finds
classify_completion_row(row, strict) ==
    CompletionFrom(canonical_outcome_from_result(row.Result),
                   coerce_closed_rr_any(row.ClosedRR), row, strict)

(***************************************************************************)
(* The calls of the completion logic.                                      *)
(***************************************************************************)

\* most tokens of a Result cell
MaxTokens == 2

ResultTokens == {<<"F", "u", "l", "l", " ", "T", "P">>, <<"l", "o", "s", "s">>, <<"B", "E">>, <<"b", "/", "e">>, <<"a", "b", "c">>}

TokenSeps == {<<",", " ">>, <<";">>}

RECURSIVE JoinWith(_, _)
\* sep.join(tokens)
JoinWith(tokens, sep) ==
    IF tokens = <<>> THEN <<>>
    ELSE IF Len(tokens) = 1 THEN tokens[1]
    ELSE tokens[1] \o sep \o JoinWith(Tail(tokens), sep)

\* Result cells: a multi-select written with commas or semicolons, an empty
\* text, a null, a number
CompletionResultCells ==
    {Str(JoinWith(toks, sep)) : toks \in SeqsUpTo(ResultTokens, MaxTokens), sep \in TokenSeps}
        \cup {None, NaN, Str(<<" ", ",", " ">>), Num(1)}

CompletionRRCells ==
    {None, NaN, Num(2), Str(<<>>), Str(<<"+", "2", "-", "3">>), Str(<<"-", "1">>), Str(<<"a", "b", "c">>),
     Str(<<"x", ",", " ", "1">>), Str(<<"0", ";", " ", "y">>), Str(<<"2", "R">>), Str(<<"i", "n", "f">>), Bool(TRUE)}

CompletionPnLCells == {None, Num(3), Num(-1)}

ResultArgs == [kind : {"result"}, x : CompletionResultCells \cup {List(<<<<"L", "o", "s", "s">>, <<"B", "E">>>>)}]

RatioArgs == [kind : {"ratio"}, x : CompletionRRCells \cup RawNumbers \cup {Str(s) : s \in RRTexts}]

RowArgs ==
    [kind : {"row"},
     row : [Result : CompletionResultCells \cup {List(<<<<"L", "o", "s", "s">>, <<"B", "E">>>>)},
            ClosedRR : CompletionRRCells, PnL : CompletionPnLCells],
     strict : BOOLEAN]

InitCompletion ==
    /\ pc = "start"
    /\ call = ""
    /\ args \in ResultArgs \cup RatioArgs \cup RowArgs
    /\ result = NoResult

\* canonical_outcome_from_result(result_raw) returned or raised
CanonicalOutcomeFromResult ==
    /\ args.kind = "result"
    /\ Returns("canonical_outcome_from_result", canonical_outcome_from_result(args.x))

\* coerce_closed_rr_any(raw) returned
CoerceClosedRRAny ==
    args.kind = "ratio" /\ Returns("coerce_closed_rr_any", coerce_closed_rr_any(args.x))

\* classify_completion_row(row, strict) returned or raised
ClassifyCompletionRow ==
    /\ args.kind = "row"
    /\ Returns("classify_completion_row", classify_completion_row(args.row, args.strict))

NextCompletion == CanonicalOutcomeFromResult \/ CoerceClosedRRAny \/ ClassifyCompletionRow

SpecCompletion == InitCompletion /\ [][NextCompletion]_vars

(***************************************************************************)
(* Claims about the completion logic                                       *)
(***************************************************************************)

\* the outcome of a returned classification resolved to Win, BE or Loss
OutcomeResolved(r) == r.outcome_canonical \in {"Win", "BE", "Loss"}

\* the Closed RR of a returned classification resolved to a number
RRResolved(r) == ~IsNa(r.closed_rr_num)

\* the parts the reason of a strict classification has to name
MissingParts(r) ==
    IF ~OutcomeResolved(r) /\ ~RRResolved(r) THEN <<"M", "i", "s", "s", "i", "n", "g", ":", " ", "O", "u", "t", "c", "o", "m", "e", ",", " ", "C", "l", "o", "s", "e", "d", " ", "R", "R">>
    ELSE IF ~OutcomeResolved(r) THEN <<"M", "i", "s", "s", "i", "n", "g", ":", " ", "O", "u", "t", "c", "o", "m", "e">>
    ELSE IF ~RRResolved(r) THEN <<"M", "i", "s", "s", "i", "n", "g", ":", " ", "C", "l", "o", "s", "e", "d", " ", "R", "R">>
    ELSE <<>>

\* C16: a strict classification is complete iff both the outcome and the
\* Closed RR resolved, and its reason names exactly the missing parts; a
\* lenient one is complete iff at least one of the two resolved; in both
\* modes the reason is empty iff the row is complete, and a row that is
\* complete in strict mode is complete in lenient mode too.
C16_StrictBothLenientEither ==
    (Returned("classify_completion_row") /\ result.t = "completion") =>
        /\ args.strict =>
              /\ result.is_complete = (OutcomeResolved(result) /\ RRResolved(result))
              /\ result.reason = MissingParts(result)
              /\ result.is_complete => classify_completion_row(args.row, FALSE).is_complete
        /\ ~args.strict =>
              result.is_complete = (OutcomeResolved(result) \/ RRResolved(result))
        /\ (result.reason = <<>>) = result.is_complete

\* a row with an outcome and no number: incomplete in strict mode, the
\* reason naming the Closed RR alone
C16_Witness ==
    /\ Returned("classify_completion_row")
    /\ result.t = "completion"
    /\ args.strict
    /\ ~result.is_complete
    /\ OutcomeResolved(result)
    /\ result.reason = <<"M", "i", "s", "s", "i", "n", "g", ":", " ", "C", "l", "o", "s", "e", "d", " ", "R", "R">>

\* the labels normalize_result_label gives the tokens of a text split on
\* commas and semicolons
LabelsOfTokens(text) ==
    LET toks == SplitTokens(Strip(text))
    IN  {normalize_result_label_text(toks[i]) : i \in 1 .. Len(toks)}

\* Win before BE before Loss among a set of labels
PriorityOutcome(labels) ==
    IF "WIN" \in labels THEN "Win"
    ELSE IF "BE" \in labels THEN "BE"
    ELSE IF "LOSS" \in labels THEN "Loss"
    ELSE NoOutcome

\* the texts that hold the tokens of a text in another order
Reordered(text) ==
    LET toks == SplitTokens(Strip(text))
    IN  {JoinWith([i \in 1 .. Len(toks) |-> toks[p[i]]], sep) :
            p \in Permutations(1 .. Len(toks)), sep \in TokenSeps}

\* C20: canonical_outcome_from_result returns Win when a token of the Result
\* split on commas and semicolons maps to WIN, else BE when one maps to BE,
\* else Loss when one maps to LOSS, else none, whatever the order of the
\* tokens; classify_completion_row keeps that outcome and turns to
\* classify_outcome_from_fields only when it is none.
C20_PriorityReductionThenFallback ==
    /\ (Returned("canonical_outcome_from_result") /\ args.x.t = "str") =>
          /\ result = [t |-> "outcome", v |-> PriorityOutcome(LabelsOfTokens(args.x.s))]
          /\ \A other \in Reordered(args.x.s) :
                canonical_outcome_from_result(Str(other)) = result
    /\ (Returned("classify_completion_row") /\ result.t = "completion" /\ args.row.Result.t = "str") =>
          LET reduced == PriorityOutcome(LabelsOfTokens(args.row.Result.s))
              fields == classify_outcome_from_fields(args.row.Result, result.closed_rr_num, args.row.PnL)
          IN  result.outcome_canonical =
                  IF reduced # NoOutcome THEN reduced
                  ELSE IF fields \in {"Win", "BE", "Loss"} THEN fields
                  ELSE NoOutcome

\* a Result of two tokens, the second one the win, on a row whose Closed RR
\* is negative: the reduction says Win where the fields alone say Loss
C20_Witness ==
    /\ Returned("classify_completion_row")
    /\ result.t = "completion"
    /\ args.row.Result.t = "str"
    /\ Len(SplitTokens(args.row.Result.s)) = 2
    /\ normalize_result_label_text(SplitTokens(args.row.Result.s)[1]) = "LOSS"
    /\ result.outcome_canonical = "Win"
    /\ classify_outcome_from_fields(args.row.Result, result.closed_rr_num, args.row.PnL) = "Loss"

(***************************************************************************)
(* The value normalizers applied to their own output:                      *)
(* src/src/edge_analysis/core/parsing.py                                   *)
(***************************************************************************)

\* normalize_entry_model(x) of any cell: a text for a str, "" otherwise
normalize_entry_model_cell(x) ==
    IF IsStr(x) THEN Str(normalize_entry_model(x.s)) ELSE Str(<<>>)

\* the normalizer named f applied to the cell v
Normalizer(f, v) ==
    CASE f = "infer_instrument" -> infer_instrument(v)
      [] f = "normalize_session" -> normalize_session(v)
      [] f = "normalize_entry_model" -> normalize_entry_model_cell(v)
      [] f = "normalize_account_group" -> normalize_account_group(v)
      [] f = "parse_closed_rr" -> parse_closed_rr(v)

Normalizers ==
    {"infer_instrument", "normalize_session", "normalize_entry_model",
     "normalize_account_group", "parse_closed_rr"}

\* the raw values of the parsers, and texts the tables of the normalizers
\* know
RenormalizeValues ==
    RawValues \cup
    {Str(s) : s \in {<<" ", "i", "n", "t", "e", "r", "n", "a", "l", " ", "p", "r", "o", "t", "e", "c", "t", "e", "d", " ", "s", "t", "r", "u", "c", "t", "u", "r", "e", " ">>, <<"n", "/", "a">>, <<"T", "r", "a", "c", "k", " ", "R", "e", "c", "o", "r", "d", " ", "A", "c", "c", "o", "u", "n", "t">>,
                     <<"F", "T", " ", "o", "n", " ", "D", "e", "m", "o", " ", "C", "h", "a", "l", "l", "e", "n", "g", "e">>, <<"N", "o", "n", "e">>, <<"u", "s", " ", "o", "p", "e", "n">>, <<"o", "'", "n", "e", "i", "l">>}}

RenormalizeArgs == [kind : {"value"}, x : RenormalizeValues]

InitRenormalize ==
    /\ pc = "start"
    /\ call = ""
    /\ args \in RenormalizeArgs
    /\ result = NoResult

\* a normalizer reads the raw value: y = f(x)
NormalizeRaw ==
    /\ pc = "start"
    /\ \E f \in Normalizers :
          /\ call' = f
          /\ result' = Normalizer(f, args.x)
    /\ pc' = "once"
    /\ UNCHANGED args

\* the same normalizer reads its own output: f(y), kept next to y; a call
\* that raised has no output to read
NormalizeAgain ==
    /\ pc = "once"
    /\ result.t # "raise"
    /\ result' = [t |-> "again", first |-> result, second |-> Normalizer(call, result)]
    /\ pc' = "done"
    /\ UNCHANGED <<call, args>>

NextRenormalize == NormalizeRaw \/ NormalizeAgain

SpecRenormalize == InitRenormalize /\ [][NextRenormalize]_vars

\* C19: each value normalizer is idempotent on its own output: f(f(x)) =
\* f(x) for infer_instrument, normalize_session, normalize_entry_model,
\* normalize_account_group and parse_closed_rr, for every raw input x.
C19_NormalizersIdempotent ==
    (pc = "done" /\ call \in Normalizers /\ result.t = "again") =>
        result.second = result.first

(***************************************************************************)
(* cumulative_rr_by_day: src/src/core/metrics.py                           *)
(***************************************************************************)

\* the column labels of the schema module that metrics.py imports
COL_DATE == <<"D", "a", "t", "e">>
COL_SESSION == <<"S", "e", "s", "s", "i", "o", "n">>
COL_RESULT == <<"R", "e", "s", "u", "l", "t">>
COL_CLOSED_RR == <<"C", "l", "o", "s", "e", "d", " ", "R", "R">>

\* a Timestamp with a time of day: hour h of the day y-m-d
Moment(y, m, d, h) == [t |-> "ts", y |-> y, m |-> m, d |-> d, h |-> h]

\* .dt.floor("D"), Timestamp.normalize(): midnight of the day of v
FloorDay(v) == Timestamp(v.y, v.m, v.d)

\* a is a day before b
DayBefore(a, b) == DayNumber(a.y, a.m, a.d) < DayNumber(b.y, b.m, b.d)

RECURSIVE SortDays(_)
\* a set of days in ascending order
SortDays(S) ==
    IF S = {} THEN <<>>
    ELSE LET first == CHOOSE a \in S : \A b \in S \ {a} : DayBefore(a, b)
         IN  <<first>> \o SortDays(S \ {first})

RECURSIVE SumSkipNa(_)
\* Series.sum() of float cells: nulls are skipped, no cell gives 0
SumSkipNa(cells) ==
    IF cells = <<>> THEN Num(0)
    ELSE IF IsNa(Head(cells)) THEN SumSkipNa(Tail(cells))
    ELSE DecAdd(Head(cells), SumSkipNa(Tail(cells)))

\* the sums of the days themselves, without the running total
DaySums(cells, k) ==
    [i \in 1 .. k |-> IF IsNa(cells[i]) THEN Num(0) ELSE cells[i]]

RECURSIVE CumSum(_, _)
\* Series.fillna(0).cumsum() of the first k cells: the running totals
CumSum(cells, k) ==
    IF k = 0 THEN <<>>
    ELSE LET before == CumSum(cells, k - 1)
             cell == IF IsNa(cells[k]) THEN Num(0) ELSE cells[k]
         IN  Append(before, IF k = 1 THEN DecAdd(Num(0), cell) ELSE DecAdd(before[k - 1], cell))

\* _normalize_df(df): df is None or a table
normalize_df(df) ==
    IF df = None THEN Frame(<<COL_DATE, COL_SESSION, COL_RESULT, COL_CLOSED_RR>>, <<>>, <<>>)
    ELSE IF HasCol(df, COL_DATE)
      THEN SetColumn(df, COL_DATE, [r \in 1 .. NumRows(df) |-> ToDatetime(Cell(df, r, COL_DATE))])
    ELSE df

\* pd.DataFrame(columns=[COL_DATE, "CumPnL"])
NoDays == Frame(<<COL_DATE, <<"C", "u", "m", "P", "n", "L">>>>, <<>>, <<>>)

\* lines 141-149: the table of the days of g, g holding a dated row
DailyCumulative(g) ==
    LET buckets == SortDays({FloorDay(Cell(g, r, COL_DATE)) : r \in 1 .. NumRows(g)})
        PnLBucket ==
            [k \in 1 .. Len(buckets) |->
                SumSkipNa([i \in 1 .. NumRows(g) |->
                              IF FloorDay(Cell(g, i, COL_DATE)) = buckets[k]
                              THEN Cell(g, i, COL_CLOSED_RR) ELSE NaN])]
        CumPnL == CumSum(PnLBucket, Len(buckets))
    IN  Frame(<<COL_DATE, <<"C", "u", "m", "P", "n", "L">>>>, [k \in 1 .. Len(buckets) |-> k - 1],
              [k \in 1 .. Len(buckets) |-> <<buckets[k], CumPnL[k]>>])

\* g.dropna(subset=[COL_DATE]) after the second pd.to_datetime
DatedRows(dfn) ==
    LET kept == SelectSeq([r \in 1 .. NumRows(dfn) |-> r],
                          LAMBDA r : ToDatetime(Cell(dfn, r, COL_DATE)) # NaT)
    IN  Frame(dfn.columns, [k \in 1 .. Len(kept) |-> dfn.index[kept[k]]],
              [k \in 1 .. Len(kept) |->
                  [dfn.data[kept[k]] EXCEPT ![ColPos(dfn, COL_DATE)] = ToDatetime(@)]])

\* lines 133-149 from dfn on
CumulativeOf(dfn) ==
    IF ~HasCol(dfn, COL_DATE) \/ ~HasCol(dfn, COL_CLOSED_RR) THEN NoDays
    ELSE IF NumRows(DatedRows(dfn)) = 0 THEN NoDays
    ELSE DailyCumulative(DatedRows(dfn))

\* cumulative_rr_by_day(df)
cumulative_rr_by_day(df) == CumulativeOf(normalize_df(df))

(***************************************************************************)
(* The buckets of the growth view: src/src/edge_analysis/ui/tabs.py        *)
(***************************************************************************)

\* the day after the day of v
NextDay(v) ==
    IF v.d < DaysInMonth(v.y, v.m) THEN Timestamp(v.y, v.m, v.d + 1)
    ELSE IF v.m < 12 THEN Timestamp(v.y, v.m + 1, 1)
    ELSE Timestamp(v.y + 1, 1, 1)

\* the day before the day of v
PrevDay(v) ==
    IF v.d > 1 THEN Timestamp(v.y, v.m, v.d - 1)
    ELSE IF v.m > 1 THEN Timestamp(v.y, v.m - 1, DaysInMonth(v.y, v.m - 1))
    ELSE Timestamp(v.y - 1, 12, 31)

RECURSIVE AddDays(_, _)
AddDays(v, n) == IF n = 0 THEN FloorDay(v) ELSE AddDays(NextDay(v), n - 1)

RECURSIVE RollbackToSunday(_)
\* the rollback of weeks that start on Sundays
RollbackToSunday(v) ==
    IF IsoWeekday(v.y, v.m, v.d) = 7 THEN FloorDay(v) ELSE RollbackToSunday(PrevDay(v))

RECURSIVE RollbackToMonday(_)
\* Week(weekday=0).rollback(v): the Monday on or before the day of v
RollbackToMonday(v) ==
    IF IsoWeekday(v.y, v.m, v.d) = 1 THEN FloorDay(v) ELSE RollbackToMonday(PrevDay(v))

\* MonthBegin().rollback(v): the first day of the month of v
RollbackToMonthStart(v) == Timestamp(v.y, v.m, 1)

\* v + freq for a v on the anchor of freq: the next Monday, the next first
\* of a month
StepOf(freq, v) ==
    IF freq = "W-MON" THEN AddDays(v, 7)
    ELSE IF v.m < 12 THEN Timestamp(v.y, v.m + 1, 1)
    ELSE Timestamp(v.y + 1, 1, 1)

\* freq.rollback(v)
RollbackOf(freq, v) ==
    IF freq = "W-MON" THEN RollbackToMonday(v) ELSE RollbackToMonthStart(v)

RECURSIVE DateRange(_, _, _)
\* date_range(start=first, end=last, freq=freq), first on the anchor
DateRange(freq, first, last) ==
    IF DayBefore(last, first) THEN <<>>
    ELSE <<first>> \o DateRange(freq, StepOf(freq, first), last)

\* the first and the last day of the index of g
FirstDay(g) ==
    FloorDay(g[CHOOSE i \in 1 .. Len(g) : \A j \in 1 .. Len(g) : ~DayBefore(g[j].Date, g[i].Date)].Date)
LastDay(g) ==
    FloorDay(g[CHOOSE i \in 1 .. Len(g) : \A j \in 1 .. Len(g) : ~DayBefore(g[i].Date, g[j].Date)].Date)

\* the bin edges of Series.resample(freq, closed="left"): from the rollback
\* of the first day to the last day plus freq
BinEdges(freq, g) ==
    DateRange(freq, RollbackOf(freq, FirstDay(g)),
              StepOf(freq, RollbackOf(freq, LastDay(g))))

\* .resample(freq, label="left", closed="left").sum(): one row per bin
\* [edge, next edge), labelled with its left edge, empty bins included
ResampleSum(freq, g) ==
    LET edges == BinEdges(freq, g)
    IN  [k \in 1 .. (Len(edges) - 1) |->
            [Bucket |-> edges[k],
             PnLBucket |->
                 SumSkipNa([i \in 1 .. Len(g) |->
                               IF /\ ~DayBefore(g[i].Date, edges[k])
                                  /\ DayBefore(g[i].Date, edges[k + 1])
                               THEN g[i].PnL_from_RR ELSE NaN])]]

\* .groupby(g_indexed.index.date).sum(): one row per day of the index
GroupByDateSum(g) ==
    LET days == SortDays({FloorDay(g[i].Date) : i \in 1 .. Len(g)})
    IN  [k \in 1 .. Len(days) |->
            [Bucket |-> days[k],
             PnLBucket |->
                 SumSkipNa([i \in 1 .. Len(g) |->
                               IF FloorDay(g[i].Date) = days[k]
                               THEN g[i].PnL_from_RR ELSE NaN])]]

\* line 630: eq_df["CumPnL"] = eq_df["PnLBucket"].fillna(0).cumsum()
WithCumPnL(eq_df) ==
    LET cum == CumSum([k \in 1 .. Len(eq_df) |-> eq_df[k].PnLBucket], Len(eq_df))
    IN  [k \in 1 .. Len(eq_df) |->
            [Bucket |-> eq_df[k].Bucket, PnLBucket |-> eq_df[k].PnLBucket,
             CumPnL |-> cum[k]]]

\* lines 589-630 of _growth_tab: eq_df for the dated trades g and the
\* chosen bucket.  The sums do not depend on the order of the rows, so the
\* sort of line 590 leaves no trace in eq_df.
growth_buckets(g, bucket) ==
    IF bucket = "Day" THEN WithCumPnL(GroupByDateSum(g))
    ELSE IF bucket = "Week" THEN WithCumPnL(ResampleSum("W-MON", g))
    ELSE WithCumPnL(ResampleSum("MS", g))

(***************************************************************************)
(* The calls of the growth curves.                                         *)
(***************************************************************************)

\* most rows of a table of trades
MaxTrades == 3

\* Date cells: a null, a text that is no date, ISO dates, a Timestamp with
\* a time of day
DayDateCells ==
    {None, Str(<<"n", "/", "a">>), Str(<<"2", "0", "2", "4", "-", "0", "1", "-", "0", "5">>), Moment(2024, 1, 5, 13), Str(<<"2", "0", "2", "4", "-", "0", "1", "-", "0", "4">>)}

\* Closed RR cells of a float column
DayRRCells == {NaN, Num(2), DecNorm(-15, 1)}

\* the tables cumulative_rr_by_day receives: no table, a table without
\* columns, tables without one of the two columns, tables of trades
DayTables ==
    {None, EmptyFrame}
        \cup {Frame(<<COL_SESSION, COL_CLOSED_RR>>, <<0>>, <<<<Str(<<"L", "o", "n", "d", "o", "n">>), rr>>>>) : rr \in DayRRCells}
        \cup {Frame(<<COL_DATE, COL_RESULT>>, <<0>>, <<<<d, Str(<<"L", "o", "s", "s">>)>>>>) : d \in DayDateCells}
        \cup {Frame(<<COL_DATE, COL_CLOSED_RR>>, [k \in 1 .. Len(rows) |-> k - 1], rows) :
                 rows \in SeqsUpTo(DayDateCells \X DayRRCells, MaxTrades)}

\* the dated trades of the growth view: the last day of 2023 (a Sunday), a
\* Monday at midnight, a Thursday, the Sunday and the Monday after it
TradeMoments ==
    {Moment(2023, 12, 31, 23), Moment(2024, 1, 29, 0), Moment(2024, 2, 1, 10),
     Moment(2024, 2, 4, 23), Moment(2024, 2, 5, 9)}

TradePnLs == {Num(2), DecNorm(-15, 1)}

Trades == [Date : TradeMoments, PnL_from_RR : TradePnLs]

TimeBuckets == {"Day", "Week", "Month"}

FrameArgs == [kind : {"frame"}, df : DayTables]

TradesArgs ==
    [kind : {"trades"}, g : SeqsUpTo(Trades, MaxTrades) \ {<<>>}, bucket : TimeBuckets]

InitGrowth ==
    /\ pc = "start"
    /\ call = ""
    /\ args \in FrameArgs \cup TradesArgs
    /\ result = NoResult

\* cumulative_rr_by_day(df) returned
CumulativeRRByDay ==
    /\ args.kind = "frame"
    /\ Returns("cumulative_rr_by_day", cumulative_rr_by_day(args.df))

\* _growth_tab built eq_df for the chosen time bucket
GrowthTab ==
    /\ args.kind = "trades"
    /\ Returns("growth_tab", [t |-> "buckets", bucket |-> args.bucket,
                              eq_df |-> growth_buckets(args.g, args.bucket)])

NextGrowth == CumulativeRRByDay \/ GrowthTab

SpecGrowth == InitGrowth /\ [][NextGrowth]_vars

(***************************************************************************)
(* Claims about the growth curves                                          *)
(***************************************************************************)

\* the rows of the table handed to cumulative_rr_by_day that carry a
\* parsable date; none when there is no table or no Date column
InputDated ==
    IF args.df = None THEN {}
    ELSE IF ~HasCol(args.df, COL_DATE) THEN {}
    ELSE {r \in 1 .. NumRows(args.df) : ToDatetime(Cell(args.df, r, COL_DATE)) # NaT}

\* the table handed to cumulative_rr_by_day has a Closed RR column
HasClosedRR == args.df # None /\ HasCol(args.df, COL_CLOSED_RR)

\* the calendar day of row r of the input
InputDay(r) == FloorDay(ToDatetime(Cell(args.df, r, COL_DATE)))

\* the Closed RR of row r of the input, a null counting as 0
InputRR(r) ==
    IF IsNa(Cell(args.df, r, COL_CLOSED_RR)) THEN Num(0) ELSE Cell(args.df, r, COL_CLOSED_RR)

RECURSIVE TotalRR(_)
\* the sum of the Closed RR of a set of input rows
TotalRR(rows) ==
    IF rows = {} THEN Num(0)
    ELSE LET r == CHOOSE x \in rows : TRUE
         IN  DecAdd(InputRR(r), TotalRR(rows \ {r}))

\* the result holds one row per day of a dated input row, the days ascend,
\* CumPnL of a row is the total of the input rows dated on or before its day
\* and the last CumPnL is the total of all dated rows
OneRowPerDay ==
    /\ NumRows(result) = Cardinality({InputDay(r) : r \in InputDated})
    /\ \A k \in 1 .. NumRows(result) :
          /\ result.data[k][1] \in {InputDay(r) : r \in InputDated}
          /\ k > 1 => DayBefore(result.data[k - 1][1], result.data[k][1])
          /\ result.data[k][2] =
                 TotalRR({r \in InputDated : ~DayBefore(result.data[k][1], InputDay(r))})
    /\ NumRows(result) > 0 =>
          result.data[NumRows(result)][2] = TotalRR(InputDated)

\* C17 as claimed: cumulative_rr_by_day returns one row per distinct
\* calendar day with a dated input row, in ascending order of the days;
\* CumPnL of a row is the sum of the Closed RR of all input rows dated on or
\* before its day (a null RR as 0, undated rows ignored), so the last CumPnL
\* is the total of the dated rows; no table, an empty table and a table
\* without dates give an empty result and no exception.
C17_Claimed_OneRowPerDatedDay ==
    Returned("cumulative_rr_by_day") =>
        /\ result.t = "frame"
        /\ result.columns = <<COL_DATE, <<"C", "u", "m", "P", "n", "L">>>>
        /\ OneRowPerDay

\* C17: for a table with a Closed RR column cumulative_rr_by_day returns
\* one row per distinct calendar day with a dated input row, in ascending
\* order of the days; CumPnL of a row is the sum of the Closed RR of all
\* input rows dated on or before its day (a null RR as 0, undated rows
\* ignored), so the last CumPnL is the total of the dated rows; no table, an
\* empty table, a table without dates and a table without a Closed RR
\* column, dated rows or not, give an empty result and no exception.
C17_RunningTotalPerDay ==
    Returned("cumulative_rr_by_day") =>
        /\ result.t = "frame"
        /\ result.columns = <<COL_DATE, <<"C", "u", "m", "P", "n", "L">>>>
        /\ IF HasClosedRR THEN OneRowPerDay ELSE NumRows(result) = 0

\* a table of an undated row and of dated rows on two days: two rows
\* come back, the second one with the total
C17_Witness ==
    /\ Returned("cumulative_rr_by_day")
    /\ HasClosedRR
    /\ NumRows(args.df) = 3
    /\ Cardinality(InputDated) = 2
    /\ NumRows(result) = 2
    /\ result.data[1][2] # Num(0)
    /\ result.data[2][2] # result.data[1][2]

\* the days from the day of label to the day of moment
DaysFrom(label, moment) ==
    DayNumber(moment.y, moment.m, moment.d) - DayNumber(label.y, label.m, label.d)

\* the bucket labelled label is the one the claim gives the trade at moment:
\* its calendar day, the Monday of its ISO week, the first day of its month
BucketOfTrade(bucket, label, moment) ==
    CASE bucket = "Day" ->
            label = [t |-> "ts", y |-> moment.y, m |-> moment.m, d |-> moment.d]
      [] bucket = "Week" ->
            /\ IsoWeekday(label.y, label.m, label.d) = 1
            /\ DaysFrom(label, moment) \in 0 .. 6
      [] bucket = "Month" ->
            label = [t |-> "ts", y |-> moment.y, m |-> moment.m, d |-> 1]

RECURSIVE TotalPnL(_, _)
\* the sum of PnL_from_RR over the trades of g at the places of S
TotalPnL(g, S) ==
    IF S = {} THEN Num(0)
    ELSE LET i == CHOOSE x \in S : TRUE
         IN  DecAdd(g[i].PnL_from_RR, TotalPnL(g, S \ {i}))

\* the last CumPnL of a table of buckets
FinalCumPnL(eq_df) == eq_df[Len(eq_df)].CumPnL

\* C18: in the growth view every trade contributes to exactly one bucket
\* under each granularity (Day: its calendar day; Week: the bucket that
\* starts on the Monday of its ISO week, a Monday trade belonging to the
\* week that starts that day; Month: the bucket that starts on the first
\* day of its month), and the final cumulative PnL is the same under Day,
\* Week and Month and equals the sum of the trades.
C18_OneBucketPerTradeSameTotal ==
    Returned("growth_tab") =>
        LET g == args.g
            eq_df == result.eq_df
        IN  /\ \A i \in 1 .. Len(g) :
                  Cardinality({k \in 1 .. Len(eq_df) :
                                  BucketOfTrade(args.bucket, eq_df[k].Bucket, g[i].Date)}) = 1
            /\ \A k \in 1 .. Len(eq_df) :
                  eq_df[k].PnLBucket =
                      TotalPnL(g, {i \in 1 .. Len(g) :
                                      BucketOfTrade(args.bucket, eq_df[k].Bucket, g[i].Date)})
            /\ FinalCumPnL(eq_df) = TotalPnL(g, 1 .. Len(g))
            /\ \A other \in TimeBuckets :
                  FinalCumPnL(growth_buckets(g, other)) = FinalCumPnL(eq_df)

\* weekly buckets for a Sunday trade and the Monday trade of the day
\* after: they fall into two weeks, the second one starting on that Monday
C18_Witness ==
    /\ Returned("growth_tab")
    /\ args.bucket = "Week"
    /\ \E i, j \in 1 .. Len(args.g) :
          /\ IsoWeekday(args.g[i].Date.y, args.g[i].Date.m, args.g[i].Date.d) = 7
          /\ IsoWeekday(args.g[j].Date.y, args.g[j].Date.m, args.g[j].Date.d) = 1
          /\ DaysFrom(args.g[i].Date, args.g[j].Date) = 1
          /\ \E k \in 2 .. Len(result.eq_df) :
                /\ result.eq_df[k].Bucket = FloorDay(args.g[j].Date)
                /\ BucketOfTrade("Week", result.eq_df[k - 1].Bucket, args.g[i].Date)

(***************************************************************************)
(* Claims about multi-select cells                                         *)
(***************************************************************************)

\* C21: for a multi-select Closed RR text, tokens separated by commas or
\* semicolons, coerce_closed_rr_any returns the value of the right-most
\* token that parses.
C21_RightMostParsableToken ==
    (/\ Returned("coerce_closed_rr_any")
     /\ IsStr(args.x)
     /\ Len(SplitTokens(Strip(args.x.s))) >= 2
     /\ ParsableTokens(Strip(args.x.s)) # <<>>) =>
        LET toks == ParsableTokens(Strip(args.x.s))
        IN  result = parse_closed_rr_text(toks[Len(toks)])

\* the normalized tokens of both inputs of build_models_list, in order
NormalizedTokens(entry_model, multi_entry) ==
    LET toks == split_listish(entry_model).l \o split_listish(multi_entry).l
    IN  [i \in 1 .. Len(toks) |-> normalize_entry_model(toks[i])]

\* the first place of x in the sequence q
FirstPlace(q, x) == CHOOSE i \in 1 .. Len(q) : q[i] = x /\ \A j \in 1 .. (i - 1) : q[j] # x

\* C22: build_models_list returns the normalized tokens of both inputs,
\* without duplicates and in the order of their first occurrence; no label
\* of the result is empty; when a token is a known canonical model the
\* result holds the known canonical models only.
C22_FirstOccurrenceNoEmptyLabel ==
    (Returned("build_models_list") /\ result.t = "list") =>
        LET toks == NormalizedTokens(args.entry_model, args.multi_entry)
            known == {i \in 1 .. Len(toks) : toks[i] \in MODEL_SET}
            out == result.l
        IN  /\ \A i, j \in 1 .. Len(out) : out[i] = out[j] => i = j
            /\ \A i \in 1 .. Len(out) : \E k \in 1 .. Len(toks) : toks[k] = out[i]
            /\ \A i, j \in 1 .. Len(out) :
                  i < j => FirstPlace(toks, out[i]) < FirstPlace(toks, out[j])
            /\ \A i \in 1 .. Len(out) : out[i] # <<>>
            /\ known # {} =>
                  /\ \A i \in 1 .. Len(out) : out[i] \in MODEL_SET
                  /\ \A k \in known : \E i \in 1 .. Len(out) : out[i] = toks[k]
            /\ known = {} =>
                  \A k \in 1 .. Len(toks) :
                      toks[k] # <<>> => \E i \in 1 .. Len(out) : out[i] = toks[k]

(***************************************************************************)
(* The date filter: src/filters.py and src/app.py                          *)
(***************************************************************************)

\* a <= b for two datetime.date values
DateLeq(a, b) == DayNumber(a.y, a.m, a.d) <= DayNumber(b.y, b.m, b.d)

\* a (start, end) tuple of dates
DatePair(start, end) == [t |-> "tuple", start |-> start, end |-> end]

\* a boolean Series
Mask(v) == [t |-> "mask", v |-> v]

\* apply_date_filter(df, date_range), df holding the Date column dates:
\* between(start, end) includes both ends
apply_date_filter(dates, date_range) ==
    IF date_range = None THEN Mask([r \in 1 .. Len(dates) |-> TRUE])
    ELSE IF date_range.t = "tuple"
      THEN Mask([r \in 1 .. Len(dates) |->
                    /\ DateLeq(date_range.start, DtDate(dates[r]))
                    /\ DateLeq(DtDate(dates[r]), date_range.end)])
    ELSE Mask([r \in 1 .. Len(dates) |-> DtDate(dates[r]) = date_range])

\* most rows of a filtered table
MaxFilterRows == 2

\* the Date cells of the table: every retained trade is dated
FilterMoments ==
    {Moment(2024, 1, 31, 23), Moment(2024, 2, 1, 0), Moment(2024, 2, 1, 15), Moment(2024, 2, 2, 9)}

\* the days of the date input
FilterDays == {Date(2024, 1, 31), Date(2024, 2, 1), Date(2024, 2, 2)}

DateRanges ==
    {None} \cup FilterDays \cup {DatePair(a, b) : a \in FilterDays, b \in FilterDays}

FilterArgs ==
    [kind : {"filter"}, dates : SeqsUpTo(FilterMoments, MaxFilterRows), date_range : DateRanges]

InitFilter ==
    /\ pc = "start"
    /\ call = ""
    /\ args \in FilterArgs
    /\ result = NoResult

\* filters.apply_date_filter(df, date_range) returned
ApplyDateFilter ==
    Returns("apply_date_filter", apply_date_filter(args.dates, args.date_range))

\* app._apply_date_filter(df, date_range), the same code, returned
AppApplyDateFilter ==
    Returns("_apply_date_filter", apply_date_filter(args.dates, args.date_range))

NextFilter == ApplyDateFilter \/ AppApplyDateFilter

SpecFilter == InitFilter /\ [][NextFilter]_vars

\* C23: for a (start, end) tuple apply_date_filter selects exactly the rows
\* whose date d has start <= d < end; for a single date exactly the rows of
\* that date; for None every row.
C23_StartInclusiveEndExclusive ==
    (pc = "done" /\ call \in {"apply_date_filter", "_apply_date_filter"}) =>
        \A r \in 1 .. Len(args.dates) :
            LET d == [t |-> "date", y |-> args.dates[r].y, m |-> args.dates[r].m,
                      d |-> args.dates[r].d]
            IN  result.v[r] =
                    IF args.date_range = None THEN TRUE
                    ELSE IF args.date_range.t = "tuple"
                      THEN /\ DateLeq(args.date_range.start, d)
                           /\ DateLeq(d, args.date_range.end)
                           /\ d # args.date_range.end
                    ELSE d = args.date_range

(***************************************************************************)
(* The user store: src/src/edge_analysis/user_store.py                     *)
(*                                                                         *)
(* A record of a user is a function from field names to values, the store *)
(* file is absent, unreadable, or holds a store.  In the specifications of *)
(* the store args holds the file and the calls made so far, result what    *)
(* the last call returned.                                                 *)
(***************************************************************************)

\* the states of user_store.json without a store in it
FileAbsent == [t |-> "absent"]
FileCorrupt == [t |-> "corrupt"]

\* a store: the users by id
Store(users) == [t |-> "store", version |-> 1, users |-> users]

\* _empty_store()
empty_store == Store(<<>>)

\* _load_raw_store() of the file
load_raw_store(file) ==
    IF file.t \in {"absent", "corrupt"} THEN empty_store ELSE file

\* _save_raw_store(store) on a writable file system: the file afterwards
save_raw_store(store) == store

\* dict.update: the fields of b over those of a
Updated(a, b) ==
    [k \in DOMAIN a \cup DOMAIN b |-> IF k \in DOMAIN b THEN b[k] ELSE a[k]]

\* users with users[user_id] = record
WithUser(users, user_id, record) ==
    [u \in DOMAIN users \cup {user_id} |-> IF u = user_id THEN record ELSE users[u]]

\* users.pop(user_id)
WithoutUser(users, user_id) == [u \in DOMAIN users \ {user_id} |-> users[u]]

\* a returned record, the None of get_user and of delete_user
Record(r) == [t |-> "record", r |-> r]

\* get_user(user_id) on the file
get_user(file, user_id) ==
    IF user_id = "" THEN None
    ELSE IF user_id \in DOMAIN load_raw_store(file).users
      THEN Record(load_raw_store(file).users[user_id])
    ELSE None

\* lines 91-105 of upsert_user: current after the merge, now being
\* time.time()
MergedRecord(store, user_id, fields, now) ==
    Updated(Updated(IF user_id \in DOMAIN store.users THEN store.users[user_id] ELSE <<>>,
                    fields),
            [k \in {"last_updated"} |-> now])

\* lines 107-109 of upsert_user: the store that is saved
UpsertedStore(store, user_id, fields, now) ==
    [store EXCEPT !.users = WithUser(@, user_id, MergedRecord(store, user_id, fields, now))]

\* upsert_user that replaces the record by the new fields
upsert_user_replacing(file, user_id, fields, now) ==
    IF user_id = "" THEN [file |-> file, returned |-> Raise("ValueError")]
    ELSE LET record == Updated(fields, [k \in {"last_updated"} |-> now])
         IN  [file |-> save_raw_store([load_raw_store(file) EXCEPT
                                          !.users = WithUser(@, user_id, record)]),
              returned |-> Record(record)]

\* upsert_user(user_id, **fields): the file afterwards and what is returned
upsert_user(file, user_id, fields, now) ==
    IF user_id = "" THEN [file |-> file, returned |-> Raise("ValueError")]
    ELSE [file |-> save_raw_store(UpsertedStore(load_raw_store(file), user_id, fields, now)),
          returned |-> Record(MergedRecord(load_raw_store(file), user_id, fields, now))]

\* the data of set_user_db: db_id, and template when it is not None
UserDbFields(db_id, template) ==
    IF template = "" THEN [k \in {"db_id"} |-> db_id]
    ELSE [k \in {"db_id", "template"} |-> IF k = "db_id" THEN db_id ELSE template]

\* set_user_db(user_id, db_id, template); "" stands for template = None
set_user_db(file, user_id, db_id, template, now) ==
    upsert_user(file, user_id, UserDbFields(db_id, template), now)

\* delete_user(user_id): the file afterwards
delete_user(file, user_id) ==
    IF user_id = "" THEN file
    ELSE IF user_id \in DOMAIN load_raw_store(file).users
      THEN save_raw_store([load_raw_store(file) EXCEPT !.users = WithoutUser(@, user_id)])
    ELSE file

(***************************************************************************)
(* Sequential runs of the calls of the user store.                         *)
(***************************************************************************)

\* most calls of a run
MaxCalls == 4

\* user ids, the empty one among them
UserIds == {"", "u1", "u2"}

\* the keyword arguments of upsert_user
UpsertFields ==
    {[k \in {"name"} |-> "Bob"],
     [k \in {"db_id", "name"} |-> IF k = "db_id" THEN "db1" ELSE "Ann"]}

\* a call of a run
CallOf(op, user_id, fields) == [op |-> op, user_id |-> user_id, fields |-> fields]

\* the run after one more call that left the file as file
AfterCall(c, file, upserted) ==
    [kind |-> "store", file |-> file, calls |-> Append(args.calls, c),
     clock |-> IF upserted THEN args.clock + 1 ELSE args.clock]

\* a writable store that holds no user yet: no file, or an unreadable one
InitStore ==
    /\ pc = "start"
    /\ call = ""
    /\ args \in [kind : {"store"}, file : {FileAbsent, FileCorrupt}, calls : {<<>>},
                 clock : {1}]
    /\ result = NoResult

\* get_user(user_id)
GetUser ==
    /\ Len(args.calls) < MaxCalls
    /\ \E user_id \in UserIds :
          /\ result' = get_user(args.file, user_id)
          /\ args' = AfterCall(CallOf("get_user", user_id, <<>>), args.file, FALSE)
    /\ call' = "get_user"
    /\ pc' = "done"

\* upsert_user(user_id, **fields)
UpsertUser ==
    /\ Len(args.calls) < MaxCalls
    /\ \E user_id \in UserIds, fields \in UpsertFields :
          LET r == upsert_user(args.file, user_id, fields, args.clock)
          IN  /\ result' = r.returned
              /\ args' = AfterCall(CallOf("upsert_user", user_id, fields), r.file,
                                   r.returned.t # "raise")
    /\ call' = "upsert_user"
    /\ pc' = "done"

\* set_user_db(user_id, db_id, template)
SetUserDb ==
    /\ Len(args.calls) < MaxCalls
    /\ \E user_id \in UserIds, template \in {"", "SRs T1"} :
          LET r == set_user_db(args.file, user_id, "db2", template, args.clock)
          IN  /\ result' = r.returned
              /\ args' = AfterCall(CallOf("set_user_db", user_id, UserDbFields("db2", template)),
                                   r.file, r.returned.t # "raise")
    /\ call' = "set_user_db"
    /\ pc' = "done"

\* delete_user(user_id)
DeleteUser ==
    /\ Len(args.calls) < MaxCalls
    /\ \E user_id \in UserIds :
          /\ result' = None
          /\ args' = AfterCall(CallOf("delete_user", user_id, <<>>),
                               delete_user(args.file, user_id), FALSE)
    /\ call' = "delete_user"
    /\ pc' = "done"

NextStore == GetUser \/ UpsertUser \/ SetUserDb \/ DeleteUser

SpecStore == InitStore /\ [][NextStore]_vars

(***************************************************************************)
(* Claims about the user store                                             *)
(***************************************************************************)

\* no record
Absent == [t |-> "absent"]

RECURSIVE UpsertedSince(_, _)
\* the merge of the fields upserted for user_id by the calls since its last
\* deletion, later values over earlier ones; Absent when there is none
UpsertedSince(calls, user_id) ==
    IF calls = <<>> THEN Absent
    ELSE LET before == UpsertedSince(SubSeq(calls, 1, Len(calls) - 1), user_id)
             c == calls[Len(calls)]
         IN  IF c.user_id # user_id \/ user_id = "" THEN before
             ELSE IF c.op = "delete_user" THEN Absent
             ELSE IF c.op \in {"upsert_user", "set_user_db"}
               THEN [t |-> "fields",
                     r |-> Updated(IF before = Absent THEN <<>> ELSE before.r, c.fields)]
             ELSE before

\* the record of user_id in the file, Absent when it has none
Stored(file, user_id) ==
    IF file.t = "store" /\ user_id \in DOMAIN file.users
    THEN [t |-> "fields", r |-> file.users[user_id]]
    ELSE Absent

RECURSIVE Upserts(_)
\* the number of calls among calls that stored a record: upsert_user and
\* set_user_db with a user id
Upserts(calls) ==
    IF calls = <<>> THEN 0
    ELSE Upserts(SubSeq(calls, 1, Len(calls) - 1))
            + (IF /\ calls[Len(calls)].op \in {"upsert_user", "set_user_db"}
                  /\ calls[Len(calls)].user_id # ""
               THEN 1 ELSE 0)

RECURSIVE LastUpsert(_, _)
\* the time.time() of the last update of user_id among calls: the clock of a
\* run starts at 1 and advances with every record stored
LastUpsert(calls, user_id) ==
    IF calls = <<>> THEN 0
    ELSE IF /\ calls[Len(calls)].op \in {"upsert_user", "set_user_db"}
            /\ calls[Len(calls)].user_id = user_id
      THEN Upserts(calls)
    ELSE LastUpsert(SubSeq(calls, 1, Len(calls) - 1), user_id)

\* the merge of the fields upserted for user_id since its last deletion with
\* last_updated, the time of the last update, over it; Absent when there is
\* no such update
StampedSince(calls, user_id) ==
    IF UpsertedSince(calls, user_id) = Absent THEN Absent
    ELSE [t |-> "fields",
          r |-> Updated(UpsertedSince(calls, user_id).r,
                        [k \in {"last_updated"} |-> LastUpsert(calls, user_id)])]

\* the call that a step of a run makes
StepCall == args'.calls[Len(args'.calls)]

\* the frame conditions of C24: a call for one user leaves the record of
\* every other user as it was, and delete_user of an absent user leaves the
\* store as it was
OthersUnchanged ==
    /\ \A u \in UserIds \ {StepCall.user_id} :
          Stored(args'.file, u) = Stored(args.file, u)
    /\ (call' = "delete_user" /\ Stored(args.file, StepCall.user_id) = Absent) =>
          args'.file = args.file

\* C24 as claimed: in a sequential run of upsert_user, set_user_db,
\* delete_user and get_user on a writable store, get_user(u) returns the
\* merge of the fields upserted for u since its last deletion, later values
\* over earlier ones and unnamed fields kept, and nothing else, or None when
\* there is none; a call for one user leaves the record of every other user
\* as it was; delete_user of an absent user leaves the store as it was.
C24_Claimed_MergeOfUpsertedFields ==
    [][/\ call' = "get_user" =>
             LET merged == UpsertedSince(args.calls, StepCall.user_id)
             IN  IF merged = Absent THEN result' = None
                 ELSE result' = Record(merged.r)
        /\ OthersUnchanged
      ]_vars

\* C24: in a sequential run of upsert_user, set_user_db, delete_user and
\* get_user on a writable store, the record stored for every user after
\* every call, and the record get_user(u) returns, is the merge of the
\* fields upserted for u since its last deletion, later values over earlier
\* ones and unnamed fields kept, together with the field last_updated that
\* holds the time of the last of these updates; there is no record, and
\* get_user returns None, when u was never upserted or has been deleted; a
\* call for one user leaves the record of every other user as it was;
\* delete_user of an absent user leaves the store as it was.
C24_MergeSinceLastDeletion ==
    [][/\ call' = "get_user" =>
             LET merged == StampedSince(args.calls, StepCall.user_id)
             IN  IF merged = Absent THEN result' = None
                 ELSE result' = Record(merged.r)
        /\ \A u \in UserIds \ {""} :
              Stored(args'.file, u) = StampedSince(args'.calls, u)
        /\ Stored(args'.file, "") = Absent
        /\ OthersUnchanged
      ]_vars

\* get_user of a user that was upserted with a database and a name, deleted
\* and upserted again with another name: the record holds the second name,
\* the time of the second upsert, and no database
C24_Witness ==
    /\ Returned("get_user")
    /\ Len(args.calls) = 4
    /\ args.calls[1].op = "upsert_user"
    /\ "db_id" \in DOMAIN args.calls[1].fields
    /\ args.calls[2].op = "delete_user"
    /\ args.calls[3].op = "upsert_user"
    /\ args.calls[3].fields = [k \in {"name"} |-> "Bob"]
    /\ \A n \in 1 .. 3 : args.calls[n].user_id = args.calls[4].user_id
    /\ result = Record([k \in {"last_updated", "name"} |->
                           IF k = "name" THEN "Bob" ELSE 2])

(***************************************************************************)
(* Two sessions on the user store.  A call is four steps: the load of     *)
(* the whole store, the change in memory, and the save of the whole store  *)
(* in two, the file opened for writing and the text written.               *)
(* args holds the file and, for each session, its call, its position and   *)
(* the store it loaded.                                                    *)
(***************************************************************************)

Sessions == {1, 2}

\* the user of a session: the sessions act for different users
UserOf(s) == IF s = 1 THEN "u1" ELSE "u2"

\* the calls a session makes: upsert_user with fields, or delete_user
SessionCalls ==
    {CallOf("upsert_user", "", fields) : fields \in {[k \in {"name"} |-> "Ann"], [k \in {"db_id"} |-> "db1"]}}
        \cup {CallOf("delete_user", "", <<>>)}

\* the numbers of digits after the point in the text of a time.time()
\* value, from a whole second ("1761912345.0") to seven digits
StampDigits == 1 .. 7

\* a time.time() value: the n-th reading of the clock, written by json.dumps
\* with ten digits, a point and digits more digits
Stamp(n, digits) == [t |-> "time", n |-> n, digits |-> digits]

\* the stores in which both users have a record, upserted at time 0
BothUsers ==
    {Store([u \in {"u1", "u2"} |->
               [k \in {"last_updated", "name"} |->
                   IF k = "name" THEN "Old" ELSE Stamp(0, IF u = "u1" THEN d1 ELSE d2)]]) :
        d1 \in StampDigits, d2 \in StampDigits}

\* no store loaded yet
NoStore == [t |-> "nostore"]

\* the number of characters of the keys, user ids and field values the
\* sessions store
TextLength ==
    [x \in {"name", "db_id", "last_updated", "u1", "u2", "Ann", "Old", "db1"} |->
        IF x = "last_updated" THEN 12
        ELSE IF x = "db_id" THEN 5
        ELSE IF x = "name" THEN 4
        ELSE IF x \in {"u1", "u2"} THEN 2
        ELSE 3]

RECURSIVE SumOf(_)
\* the sum of the values of a function of finite domain
SumOf(f) ==
    IF DOMAIN f = {} THEN 0
    ELSE LET k == CHOOSE x \in DOMAIN f : TRUE
         IN  f[k] + SumOf([x \in DOMAIN f \ {k} |-> f[x]])

\* the characters json.dumps writes for the value of field k: the float of
\* time.time(), a string in its quotes
ValueLength(k, v) ==
    IF k = "last_updated" THEN 10 + 1 + v.digits
    ELSE TextLength[v] + 2

\* the characters of a dict of n > 0 items in the indented form, its items
\* at indent spaces, each item: "key": value
DictLength(indent, n, items) ==
    2 + n * (indent + 4) + items + (n - 1) * 2 + 1 + (indent - 2) + 1

\* len(json.dumps(record, indent=2, sort_keys=True)) of a user's record
\* inside the store
RecordLength(r) ==
    IF DOMAIN r = {} THEN 2
    ELSE DictLength(6, Cardinality(DOMAIN r),
                    SumOf([k \in DOMAIN r |-> TextLength[k] + ValueLength(k, r[k])]))

\* len(json.dumps(store, indent=2, sort_keys=True)), line 59
JsonLength(store) ==
    LET users == IF DOMAIN store.users = {} THEN 2
                 ELSE DictLength(4, Cardinality(DOMAIN store.users),
                          SumOf([u \in DOMAIN store.users |->
                                    TextLength[u] + RecordLength(store.users[u])]))
    IN  DictLength(2, 2, 5 + users + 7 + 1)

\* the text in the file after one session wrote text of length n from the
\* start of a file that held size characters: the new text, followed by
\* what was beyond it, which leaves no JSON
Overwritten(store, size) ==
    IF JsonLength(store) >= size THEN save_raw_store(store) ELSE FileCorrupt

InitRace ==
    /\ pc = "start"
    /\ call = ""
    /\ \E file \in {FileAbsent} \cup BothUsers, c1 \in SessionCalls, c2 \in SessionCalls :
          args = [kind |-> "race", file |-> file, clock |-> 1,
                  size |-> IF file = FileAbsent THEN 0 ELSE JsonLength(file),
                  sessions |-> [s \in Sessions |->
                                   [at |-> "start", store |-> NoStore, saved |-> TRUE,
                                    c |-> [IF s = 1 THEN c1 ELSE c2 EXCEPT !.user_id = UserOf(s)]]]]
    /\ result = NoResult

\* the position of the run after a step that moves session s
RunAfter(sessions) ==
    IF \A s \in Sessions : sessions[s].at = "done" THEN "done" ELSE "running"

\* store = _load_raw_store() in session s
LoadStore ==
    \E s \in Sessions :
        /\ args.sessions[s].at = "start"
        /\ args' = [args EXCEPT !.sessions[s].at = "loaded",
                                !.sessions[s].store = load_raw_store(args.file)]
        /\ pc' = RunAfter(args'.sessions)
        /\ call' = "load"
        /\ UNCHANGED result

\* the change in memory in session s: the merge of upsert_user, stamped
\* with time.time(), the pop of delete_user; delete_user of a user the
\* loaded store does not hold ends
ChangeStore ==
    \E s \in Sessions :
        LET me == args.sessions[s]
        IN  /\ me.at = "loaded"
            /\ IF me.c.op = "upsert_user"
                  THEN \E digits \in StampDigits :
                          args' = [args EXCEPT
                                     !.sessions[s].at = "changed",
                                     !.sessions[s].store =
                                         UpsertedStore(me.store, me.c.user_id, me.c.fields,
                                                       Stamp(args.clock, digits)),
                                     !.clock = @ + 1]
                  ELSE args' =
                  IF me.c.user_id \in DOMAIN me.store.users
                  THEN [args EXCEPT !.sessions[s].at = "changed",
                                    !.sessions[s].store =
                                        [me.store EXCEPT !.users = WithoutUser(@, me.c.user_id)]]
                  ELSE [args EXCEPT !.sessions[s].at = "done"]
            /\ pc' = RunAfter(args'.sessions)
            /\ call' = "change"
            /\ UNCHANGED result

\* _save_raw_store(store) in session s, first half: Path.write_text opens
\* the file for writing, which leaves it without text until the write
OpenStore ==
    \E s \in Sessions :
        /\ args.sessions[s].at = "changed"
        /\ args' = [args EXCEPT !.sessions[s].at = "opened",
                                !.file = FileCorrupt, !.size = 0]
        /\ pc' = RunAfter(args'.sessions)
        /\ call' = "open"
        /\ UNCHANGED result

\* _save_raw_store(store) in session s, second half: the text of the whole
\* store is written from the start of the file, over the text another
\* session wrote since this one opened the file
SaveStore ==
    \E s \in Sessions :
        /\ args.sessions[s].at = "opened"
        /\ args' = [args EXCEPT !.sessions[s].at = "done",
                                !.file = Overwritten(args.sessions[s].store, args.size),
                                !.size = Max(@, JsonLength(args.sessions[s].store))]
        /\ pc' = RunAfter(args'.sessions)
        /\ call' = "save"
        /\ UNCHANGED result

\* _save_raw_store(store) in session s where the file cannot be opened or
\* written: the exception is passed over and the call ends, the file as it
\* was at that moment
SaveFails ==
    \E s \in Sessions :
        /\ args.sessions[s].at \in {"changed", "opened"}
        /\ args' = [args EXCEPT !.sessions[s].at = "done",
                                !.sessions[s].saved = FALSE]
        /\ pc' = RunAfter(args'.sessions)
        /\ call' = "save fails"
        /\ UNCHANGED result

NextRace == LoadStore \/ ChangeStore \/ OpenStore \/ SaveStore \/ SaveFails

SpecRace == InitRace /\ [][NextRace]_vars

\* the file reflects the call c: the fields of an upsert are in the record
\* of its user, the user of a deletion has no record
Reflects(file, c) ==
    IF c.op = "upsert_user"
    THEN /\ Stored(file, c.user_id) # Absent
         /\ \A k \in DOMAIN c.fields : k \in DOMAIN Stored(file, c.user_id).r
                                        /\ Stored(file, c.user_id).r[k] = c.fields[k]
    ELSE Stored(file, c.user_id) = Absent

\* C27: when two sessions run upsert_user or delete_user for different user
\* ids at the same time, the store reflects both calls once both have
\* ended, whatever the interleaving of their loads, changes and saves (no
\* save having failed).
C27_NoLostUpdate ==
    (/\ args.kind = "race" /\ pc = "done"
     /\ \A s \in Sessions : args.sessions[s].saved) =>
        \A s \in Sessions : Reflects(args.file, args.sessions[s].c)

(***************************************************************************)
(* The three Closed RR parsers: core/parsing.py, data/notion_adapter.py    *)
(* and core/features.py                                                    *)
(***************************************************************************)

\* _RANGE of features.py matched against the whole of s: a number, then
\* optionally a hyphen and a second number, blanks allowed around each
FeaturesRangeMatch(s) ==
    LET i == SkipSpaces(s, 1)
        a == NumberEnd(s, i)
        j == IF a = 0 THEN 0 ELSE SkipSpaces(s, a + 1)
        q == IF a # 0 /\ j <= Len(s) /\ s[j] = "-" THEN SkipSpaces(s, j + 1) ELSE 0
        b == IF q = 0 THEN 0 ELSE NumberEnd(s, q)
    IN  IF a = 0 THEN [ok |-> FALSE]
        ELSE IF j > Len(s) THEN [ok |-> TRUE, lo |-> SubSeq(s, i, a), hi |-> None]
        ELSE IF b # 0 /\ SkipSpaces(s, b + 1) > Len(s)
          THEN [ok |-> TRUE, lo |-> SubSeq(s, i, a), hi |-> Str(SubSeq(s, q, b))]
        ELSE [ok |-> FALSE]

\* the parse_closed_rr of features.py: None where the text is no number and
\* no hyphen range
features_parse_closed_rr(value) ==
    IF value = None THEN None
    ELSE LET s == Strip(StrOf(value))
             m == FeaturesRangeMatch(s)
         IN  IF s = <<>> THEN None
             ELSE IF ~m.ok
               THEN LET v == FloatOf(s)
                    IN  IF v.t = "raise" THEN None ELSE v
             ELSE IF m.hi = None THEN NumeralVal(m.lo)
             ELSE DecHalf(DecAdd(NumeralVal(m.lo), NumeralVal(m.hi.s)))

\* ranges written with an em dash
EmDashTexts == {a.text \o <<EmDash>> \o b.text : a \in Numerals, b \in Numerals}

\* the raw Closed RR cells of a Notion database
ClosedRRArgs ==
    {[kind |-> "closed_rr", x |-> Str(s)] : s \in RRTexts \cup EmDashTexts}

InitClosedRR ==
    /\ pc = "start"
    /\ call = ""
    /\ args \in ClosedRRArgs
    /\ result = NoResult

\* the raw cell parsed once by the core parser
CoreParseClosedRR ==
    Returns("core.parsing.parse_closed_rr", parse_closed_rr(args.x))

NotionParseClosedRR ==
    Returns("data.notion_adapter.parse_closed_rr", notion_parse_closed_rr(args.x))

FeaturesParseClosedRR ==
    Returns("core.features.parse_closed_rr", features_parse_closed_rr(args.x))

\* the cell parsed by load_trades_from_notion, then again by load_live_df
PreParsedThenReparsed ==
    Returns("load_live_df", parse_closed_rr(notion_parse_closed_rr(args.x)))

NextClosedRR ==
    \/ CoreParseClosedRR
    \/ NotionParseClosedRR
    \/ FeaturesParseClosedRR
    \/ PreParsedThenReparsed

SpecClosedRR == InitClosedRR /\ [][NextClosedRR]_vars

\* the same number, or no value on both sides
SameNumber(a, b) == IF IsNa(a) \/ IsNa(b) THEN IsNa(a) /\ IsNa(b) ELSE a = b

\* C26: whichever of the three parsers a Closed RR text is given to, and
\* also when the Notion adapter parses it before load_live_df parses it
\* again, the value is the one the core parser gives for the raw text
C26_ThreeParsersAgree ==
    (pc = "done" /\ args.kind = "closed_rr") =>
        SameNumber(result, parse_closed_rr(args.x))

\* the Outcome load_live_df computes for a row: Closed RR through
\* parse_closed_rr, PnL through to_numeric, then classify_outcome_from_fields
\* on the whole Result text
LoadedOutcome(row) ==
    classify_outcome_from_fields(row.Result, parse_closed_rr(row.ClosedRR),
                                 ToNumeric(row.PnL))

\* C25: where the Outcome of load_live_df and the outcome_canonical of
\* classify_completion_row are both one of Win, BE, Loss for a row, they are
\* the same one, multi-select Results and Closed RR lists included
C25_OutcomeColumnsAgree ==
    (/\ Returned("classify_completion_row")
     /\ result.t = "completion"
     /\ OutcomeResolved(result)
     /\ LoadedOutcome(args.row) \in {"Win", "BE", "Loss"}) =>
        result.outcome_canonical = LoadedOutcome(args.row)

RECURSIVE TradesSum(_)
\* the sum of the Trades column of a result of group_win_rates
TradesSum(groups) ==
    IF groups = <<>> THEN 0 ELSE groups[1].Trades + TradesSum(Tail(groups))

\* C30: the Trades of all rows of group_win_rates' result add up to the
\* number of input rows: every input row is counted in exactly one group,
\* rows with a null grouping cell and rows of Unknown outcome included
C30_TradesSumIsRowCount ==
    Returned("group_win_rates") => TradesSum(result) = Len(args.rows)

(***************************************************************************)
(* The pagination loop of load_trades_from_notion:                         *)
(* src/src/edge_analysis/data/notion_adapter.py                            *)
(***************************************************************************)

\* most requests of one call followed by the model
MaxRequests == 4

\* the cursors the remote hands out; None is the start of the database
PageCursors == {Str(<<"c", "1">>), Str(<<"c", "2">>)}

\* what client.databases.query answers besides the page's results
Responses == [has_more : BOOLEAN, next_cursor : PageCursors \cup {None}]

\* the page a request with start_cursor returns: one row, named after it
PageAt(start_cursor) == <<[page |-> start_cursor]>>

InitPages ==
    /\ pc = "start"
    /\ call = ""
    /\ args \in [kind : {"pages"}, token : {<<>>, <<"t">>}, database_id : {<<>>, <<"d">>},
                 next_cursor : {None}, results : {<<>>}, requests : {<<>>}]
    /\ result = NoResult

\* lines 105-108
RejectInputs ==
    /\ pc = "start"
    /\ args.kind = "pages"
    /\ args.token = <<>> \/ args.database_id = <<>>
    /\ pc' = "done"
    /\ call' = "load_trades_from_notion"
    /\ result' = Raise("ValueError")
    /\ UNCHANGED args

\* lines 111-118: the client is made and the loop is entered, or
\* Client(auth=token) raises and the call raises ValueError
EnterLoop ==
    /\ pc = "start"
    /\ args.kind = "pages"
    /\ args.token # <<>> /\ args.database_id # <<>>
    /\ \E client_made \in BOOLEAN :
          IF client_made THEN pc' = "loop" /\ UNCHANGED <<call, result>>
          ELSE /\ pc' = "done"
               /\ call' = "load_trades_from_notion"
               /\ result' = Raise("ValueError")
    /\ UNCHANGED args

\* lines 121-134: one request with the current cursor, answered by resp
QueryPage ==
    /\ pc = "loop"
    /\ Len(args.requests) < MaxRequests
    /\ \E resp \in Responses :
          /\ args' = [args EXCEPT
                        !.requests = Append(@, args.next_cursor),
                        !.results = @ \o PageAt(args.next_cursor),
                        !.next_cursor = IF resp.has_more THEN resp.next_cursor ELSE @]
          /\ pc' = IF resp.has_more THEN "loop" ELSE "flatten"
    /\ UNCHANGED <<call, result>>

\* the exceptions a request may raise
RequestErrors == {"AttributeError", "KeyError", "ConnectionError", "RuntimeError"}

\* lines 136-145: the request raised: an AttributeError is raised again as
\* an AttributeError, any other exception as a RuntimeError
QueryRaises ==
    /\ pc = "loop"
    /\ Len(args.requests) < MaxRequests
    /\ args' = [args EXCEPT !.requests = Append(@, args.next_cursor)]
    /\ pc' = "done"
    /\ call' = "load_trades_from_notion"
    /\ \E raised \in RequestErrors :
          result' = Raise(IF raised = "AttributeError" THEN "AttributeError"
                          ELSE "RuntimeError")

\* lines 148-149 and on: the rows of the fetched pages
ReturnRows ==
    /\ pc = "flatten"
    /\ pc' = "done"
    /\ call' = "load_trades_from_notion"
    /\ result' = [t |-> "rows", rows |-> args.results]
    /\ UNCHANGED args

NextPages == RejectInputs \/ EnterLoop \/ QueryPage \/ QueryRaises \/ ReturnRows

SpecPages == InitPages /\ [][NextPages]_vars

\* no element of q occurs twice
NoRepeat(q) == \A i, j \in 1 .. Len(q) : q[i] = q[j] => i = j

\* C28: the loop requests each page cursor at most once, so it ends after
\* at most one request per cursor, and the rows returned are those of the
\* fetched pages in fetch order, no page twice
C28_EachCursorOnceRowsInOrder ==
    args.kind = "pages" =>
        /\ NoRepeat(args.requests)
        /\ Len(args.requests) <= Cardinality(PageCursors) + 1
        /\ (Returned("load_trades_from_notion") /\ result.t = "rows") =>
              /\ NoRepeat(result.rows)
              /\ result.rows = [i \in 1 .. Len(args.requests) |->
                                    [page |-> args.requests[i]]]

(***************************************************************************)
(* The OAuth login: src/app.py                                             *)
(***************************************************************************)

\* most callbacks of one run
MaxCallbacks == 2

\* the state values secrets.token_urlsafe gives, each one once
OAuthStates == {"s1", "s2"}

\* the state values a callback may carry: an issued one, one that was never
\* issued, none
CallbackStates == OAuthStates \cup {"forged", ""}

\* the PKCE verifier made together with a state
VerifierOf(state) == [t |-> "verifier", of |-> state]

\* _oauth_put(state, code_verifier) on the store, kept as its set of keys
oauth_put(store, state) == store \cup {state}

\* _oauth_pop(state): the record or None, and the store without it
oauth_pop(store, state) ==
    [rec |-> IF state \in store THEN VerifierOf(state) ELSE None,
     store |-> store \ {state}]

\* what _exchange_code_for_token gives: no data, data without a token, a
\* token
TokenAnswers == {"no data", "no token", "token"}

\* lines 399-401 of _prepare_oauth_url: the client id and the redirect URI
\* are set, secrets being what _oauth_client() reads
CanAuthorize(secrets) == secrets.client_id /\ secrets.redirect_uri

\* lines 292-294 of _exchange_code_for_token: the client secret is set too
CanExchange(secrets) ==
    secrets.client_id /\ secrets.client_secret /\ secrets.redirect_uri

\* the browser sessions of the application: _oauth_store is one for the
\* process, st.session_state one for each session
OAuthSessions == {1, 2}

\* lines 427-438 of _handle_oauth_callback() in session s of the run a, the
\* query parameters being code and rstate: the state is popped from the
\* store, the verifier chosen, and with client credentials the exchange
\* posted; exchanges holds the requests posted to the token endpoint
begin_oauth_callback(a, s, code, rstate) ==
    LET popped == oauth_pop(a.store, rstate)
        me == a.sessions[s]
        verifier == IF popped.rec # None THEN popped.rec
                    ELSE IF me.pending # "" THEN VerifierOf(me.pending)
                    ELSE None
    IN  [a EXCEPT
           !.store = popped.store,
           !.exchanges = IF CanExchange(a.secrets)
                           THEN Append(@, [state |-> rstate, verifier |-> verifier,
                                           issued |-> rstate \in a.issued])
                         ELSE @,
           !.callbacks = @ + 1,
           !.sessions[s].at = IF CanExchange(a.secrets) THEN "waiting" ELSE "ending",
           !.sessions[s].rstate = rstate]

\* lines 439-447 and 367-368 in session s: the token exchange gave data;
\* with a token in it _complete_login_with_token writes it to the session
\* and goes on to ask users/me
receive_token(a, s, data) ==
    [a EXCEPT
       !.sessions[s].access_token = IF data = "token" THEN "token" ELSE @,
       !.logins = IF data = "token" THEN Append(@, a.sessions[s].rstate) ELSE @,
       !.sessions[s].at = "ending"]

\* lines 453-456 in session s: the pending login is dropped
end_oauth_callback(a, s) ==
    [a EXCEPT !.sessions[s].pending = "", !.sessions[s].at = "idle",
              !.sessions[s].rstate = ""]

\* fresh sessions of an application with any of its three secrets set
InitOAuth ==
    /\ pc = "start"
    /\ call = ""
    /\ args \in [kind : {"oauth"},
                 secrets : [client_id : BOOLEAN, client_secret : BOOLEAN,
                            redirect_uri : BOOLEAN],
                 store : {{}}, issued : {{}},
                 exchanges : {<<>>}, logins : {<<>>}, callbacks : {0},
                 sessions : {[s \in OAuthSessions |->
                                 [pending |-> "", access_token |-> "", at |-> "idle",
                                  rstate |-> ""]]}]
    /\ result = NoResult

\* _prepare_oauth_url() in a session
PrepareOAuthUrl ==
    /\ \E s \in OAuthSessions, state \in OAuthStates \ args.issued :
          /\ args.sessions[s].at = "idle"
          /\ IF ~CanAuthorize(args.secrets) THEN result' = None /\ UNCHANGED args
             ELSE /\ result' = [t |-> "url", state |-> state]
                  /\ args' = [args EXCEPT !.sessions[s].pending = state,
                                          !.store = oauth_put(@, state),
                                          !.issued = @ \cup {state}]
    /\ call' = "_prepare_oauth_url"
    /\ pc' = "done"

\* _handle_oauth_callback() in a session, up to the wait for the token
\* endpoint; without code or state it returns False at once
HandleOAuthCallback ==
    /\ args.callbacks < MaxCallbacks
    /\ \E s \in OAuthSessions, code \in {"", "code"}, rstate \in CallbackStates :
          /\ args.sessions[s].at = "idle"
          /\ IF code = "" \/ rstate = ""
             THEN /\ args' = [args EXCEPT !.callbacks = @ + 1]
                  /\ result' = Bool(FALSE)
                  /\ pc' = "done"
             ELSE /\ args' = begin_oauth_callback(args, s, code, rstate)
                  /\ result' = NoResult
                  /\ pc' = "running"
    /\ call' = "_handle_oauth_callback"

\* the token endpoint answered the session that waits for it
ReceiveToken ==
    /\ \E s \in OAuthSessions, data \in TokenAnswers :
          /\ args.sessions[s].at = "waiting"
          /\ args' = receive_token(args, s, data)
    /\ call' = "_exchange_code_for_token"
    /\ pc' = "running"
    /\ UNCHANGED result

\* the finally of _handle_oauth_callback(): st.rerun() ends the script run
\* by raising; where the build's rerun raises nothing the call returns True
EndOAuthCallback ==
    /\ \E s \in OAuthSessions, rerun_raises \in BOOLEAN :
          /\ args.sessions[s].at = "ending"
          /\ args' = end_oauth_callback(args, s)
          /\ result' = IF rerun_raises THEN Raise("Rerun") ELSE Bool(TRUE)
    /\ call' = "_handle_oauth_callback"
    /\ pc' = "done"

\* the Disconnect button of render_connect_page in a session
Disconnect ==
    /\ \E s \in OAuthSessions :
          /\ args.sessions[s].at = "idle"
          /\ args.sessions[s].pending # "" \/ args.sessions[s].access_token # ""
          /\ args' = [args EXCEPT !.sessions[s].pending = "",
                                  !.sessions[s].access_token = ""]
    /\ call' = "render_connect_page"
    /\ pc' = "done"
    /\ UNCHANGED result

NextOAuth ==
    \/ PrepareOAuthUrl
    \/ HandleOAuthCallback
    \/ ReceiveToken
    \/ EndOAuthCallback
    \/ Disconnect

SpecOAuth == InitOAuth /\ [][NextOAuth]_vars

\* C29: every token exchange, and so every login, is for a callback whose
\* state had been issued by _prepare_oauth_url and had not been used by an
\* earlier callback; no issued state is accepted twice
C29_OnlyIssuedUnusedStates ==
    args.kind = "oauth" =>
        /\ \A i \in 1 .. Len(args.exchanges) :
              /\ args.exchanges[i].issued
              /\ \A j \in 1 .. (i - 1) : args.exchanges[j].state # args.exchanges[i].state
        /\ \A i \in 1 .. Len(args.logins) :
              /\ args.logins[i] \in args.issued
              /\ \A j \in 1 .. (i - 1) : args.logins[j] # args.logins[i]
        /\ \A s \in OAuthSessions :
              args.sessions[s].access_token # "" => args.logins # <<>>

====
